---- MODULE Spec2Model ----
(***************************************************************************)
(* Nextrole job search: the aggregation-and-scoring pipeline.              *)
(*                                                                         *)
(*   Spec       one run of search_all_boards (job_search.py): the four     *)
(*              adapters run on a thread pool, the collecting thread       *)
(*              gathers their results, then score, deduplicate, sort and   *)
(*              filter.                                                    *)
(*   SpecDedup  deduplicate_jobs applied to every bounded posting list.    *)
(*   SpecScore  calculate_match_breakdown, sub-score by sub-score.         *)
(*   SpecPool   the thread pool on any list of the scraper classes.        *)
(*   SpecRetry  one call of make_request under its retry decorator.        *)
(*   SpecFilter apply_filters on every bounded sorted posting list.        *)
(*   SpecExperience, SpecLocation  the two sub-scores with their inputs.   *)
(*   SpecFair   Spec under fair scheduling of the pool and the collector.  *)
(*   SpecMain   one run of main: envelope, dispatch, output, exit status.  *)
(*   SpecParse  parse_resume (resume_parser.py) on every bounded PDF.      *)
(*                                                                         *)
(* Numbers: a sub-score s in [0,1] is the integer s * SCALE, a total score *)
(* t is t * ONE (ONE = SCALE * 100), a progress fraction p is p * PSCALE.  *)
(* The scales are chosen so that every quotient the code forms within the  *)
(* bounds is exact.                                                        *)
(***************************************************************************)
EXTENDS Integers, Sequences, FiniteSets, TLC

VARIABLES
    filters,            \* search_all_boards: the criteria of the request
    resume_data,        \* search_all_boards: the candidate profile
    pc,                 \* position of the collecting (main) thread
    task,               \* per adapter: state of its future
    outcome,            \* per adapter: what run_scraper returned or raised
    all_jobs,           \* the accumulator of postings
    errors,             \* the accumulator of error strings
    completed_scrapers, \* the completion counter
    collected,          \* per adapter: how often extend / errors.append ran
    progress,           \* the fractions the latest step passed to log_progress
    settled,            \* the adapters collected so far, in order
    unique_jobs,        \* deduplicated (then sorted) postings
    result,             \* the returned dictionary
    dedup,              \* SpecDedup: input, outputs and position
    score,              \* SpecScore: inputs' sub-scores and position
    request,            \* SpecRetry: one call of make_request and its retries
    main,               \* SpecMain: one run of main, its output and exit status
    parse               \* SpecParse: one call of parse_resume

vars == <<filters, resume_data, pc, task, outcome, all_jobs, errors,
          completed_scrapers, collected, progress, settled, unique_jobs,
          result, dedup, score, request, main, parse>>

orchVars == <<filters, resume_data, pc, task, outcome, all_jobs, errors,
              completed_scrapers, collected, progress, settled, unique_jobs,
              result>>

----------------------------------------------------------------------------
(* Helpers on sequences and sets.                                          *)

Range(s) == {s[i] : i \in 1..Len(s)}

SeqsUpTo(S, n) == UNION {[1..k -> S] : k \in 0..n}

Min(a, b) == IF a <= b THEN a ELSE b

Max(a, b) == IF a >= b THEN a ELSE b

\* make_request is not being called.
NoRequest == [phase |-> "off"]

\* main is not running.
NoMain == [phase |-> "off"]

\* parse_resume is not being called.
NoParse == [phase |-> "off"]

----------------------------------------------------------------------------
(* Strings.  str.lower() on the strings the model uses.                    *)

Lower(s) ==
    CASE s = "Dev" -> "dev"
      [] s = "Ops" -> "ops"
      [] s = "Acme" -> "acme"
      [] s = "ACME" -> "acme"
      [] s = "Swift" -> "swift"
      [] s = "Lead Dev" -> "lead dev"
      [] OTHER -> s

----------------------------------------------------------------------------
(* deduplicate_jobs (job_search.py 132-150).                               *)

TitleCompany(job) == <<Lower(job.title), Lower(job.company)>>

DedupInit == [seen_urls |-> {}, seen_title_company |-> {}, unique_jobs |-> <<>>]

\* DedupStep without the pair recorded on the URL branch.
DedupStepNoPairRecord(st, job) ==
    IF job.url # "" /\ job.url \notin st.seen_urls
    THEN [seen_urls |-> st.seen_urls \cup {job.url},
          seen_title_company |-> st.seen_title_company,
          unique_jobs |-> Append(st.unique_jobs, job)]
    ELSE IF TitleCompany(job) \notin st.seen_title_company
    THEN [st EXCEPT !.seen_title_company = @ \cup {TitleCompany(job)},
                    !.unique_jobs = Append(@, job)]
    ELSE st

\* DedupStep comparing titles and companies as written.
DedupStepCaseSensitive(st, job) ==
    IF job.url # "" /\ job.url \notin st.seen_urls
    THEN [seen_urls |-> st.seen_urls \cup {job.url},
          seen_title_company |->
              st.seen_title_company \cup {<<job.title, job.company>>},
          unique_jobs |-> Append(st.unique_jobs, job)]
    ELSE IF <<job.title, job.company>> \notin st.seen_title_company
    THEN [st EXCEPT !.seen_title_company = @ \cup {<<job.title, job.company>>},
                    !.unique_jobs = Append(@, job)]
    ELSE st

\* DedupStep where a later duplicate takes the place of the kept posting.
DedupStepLastWins(st, job) ==
    IF job.url # "" /\ job.url \notin st.seen_urls
    THEN [seen_urls |-> st.seen_urls \cup {job.url},
          seen_title_company |-> st.seen_title_company \cup {TitleCompany(job)},
          unique_jobs |-> Append(st.unique_jobs, job)]
    ELSE IF TitleCompany(job) \notin st.seen_title_company
    THEN [st EXCEPT !.seen_title_company = @ \cup {TitleCompany(job)},
                    !.unique_jobs = Append(@, job)]
    ELSE [st EXCEPT !.unique_jobs =
              [i \in DOMAIN @ |->
                  IF TitleCompany(@[i]) = TitleCompany(job) THEN job ELSE @[i]]]

\* One iteration of the loop: a posting whose URL is non-empty and new is
\* kept and records both keys; any other posting is kept when its
\* (title, company) pair is new and records that pair only.
DedupStep(st, job) ==
    IF job.url # "" /\ job.url \notin st.seen_urls
    THEN [seen_urls |-> st.seen_urls \cup {job.url},
          seen_title_company |-> st.seen_title_company \cup {TitleCompany(job)},
          unique_jobs |-> Append(st.unique_jobs, job)]
    ELSE IF TitleCompany(job) \notin st.seen_title_company
    THEN [st EXCEPT !.seen_title_company = @ \cup {TitleCompany(job)},
                    !.unique_jobs = Append(@, job)]
    ELSE st

\* The loop state after the first n postings of jobs.
RECURSIVE DedupLoop(_, _)
DedupLoop(jobs, n) ==
    IF n = 0 THEN DedupInit ELSE DedupStep(DedupLoop(jobs, n - 1), jobs[n])

deduplicate_jobs(jobs) == DedupLoop(jobs, Len(jobs)).unique_jobs

----------------------------------------------------------------------------
(* SpecDedup: deduplicate_jobs on every posting list of at most            *)
(* MaxDedupLen postings, applied once and then to its own output.          *)

MaxDedupLen == 3

DedupUrls == {"", "u1", "u2"}

DedupTitles == {"Dev", "dev", "Ops"}

DedupCompanies == {"Acme", "ACME"}

DedupPostings == [url : DedupUrls, title : DedupTitles, company : DedupCompanies]

NoDedup == [phase |-> "off", jobs |-> <<>>, out |-> <<>>, again |-> <<>>]

DedupSpecInit ==
    /\ dedup \in {[phase |-> "input", jobs |-> x, out |-> <<>>, again |-> <<>>] :
                      x \in SeqsUpTo(DedupPostings, MaxDedupLen)}
    /\ score = [phase |-> "off"]
    /\ request = NoRequest
    /\ main = NoMain
    /\ parse = NoParse
    /\ filters = [off |-> TRUE]
    /\ resume_data = [off |-> TRUE]
    /\ pc = "off"
    /\ task = <<>>
    /\ outcome = <<>>
    /\ all_jobs = <<>>
    /\ errors = <<>>
    /\ completed_scrapers = 0
    /\ collected = <<>>
    /\ progress = <<>>
    /\ settled = <<>>
    /\ unique_jobs = <<>>
    /\ result = [off |-> TRUE]

DedupApply ==
    /\ dedup.phase = "input"
    /\ dedup' = [dedup EXCEPT !.phase = "once",
                              !.out = deduplicate_jobs(dedup.jobs)]
    /\ UNCHANGED <<orchVars, score, request, main, parse>>

DedupApplyAgain ==
    /\ dedup.phase = "once"
    /\ dedup' = [dedup EXCEPT !.phase = "twice",
                              !.again = deduplicate_jobs(dedup.out)]
    /\ UNCHANGED <<orchVars, score, request, main, parse>>

DedupNext == DedupApply \/ DedupApplyAgain

SpecDedup == DedupSpecInit /\ [][DedupNext]_vars

----------------------------------------------------------------------------
(* Claims about deduplicate_jobs.                                          *)

DedupDone == dedup.phase \in {"once", "twice"}

\* C3: the output of deduplicate_jobs never contains two postings with the
\* same non-empty URL, whatever their titles and companies are.
C3_NoTwoWithSameUrl ==
    DedupDone =>
        \A i, j \in DOMAIN dedup.out :
            (i < j /\ dedup.out[i].url # "") => dedup.out[i].url # dedup.out[j].url

\* C4: the output of deduplicate_jobs never contains two postings that both
\* have an empty URL and the same lower-cased (title, company) pair.
C4_NoTwoEmptyUrlSamePair ==
    DedupDone =>
        \A i, j \in DOMAIN dedup.out :
            (i < j /\ dedup.out[i].url = "" /\ dedup.out[j].url = "")
                => TitleCompany(dedup.out[i]) # TitleCompany(dedup.out[j])

\* C4 witness: an input with two empty-URL postings whose pairs differ only
\* in letter case has been deduplicated.
C4_Witness ==
    /\ DedupDone
    /\ \E i, j \in DOMAIN dedup.jobs :
          /\ i < j
          /\ dedup.jobs[i].url = "" /\ dedup.jobs[j].url = ""
          /\ dedup.jobs[i].title # dedup.jobs[j].title
          /\ TitleCompany(dedup.jobs[i]) = TitleCompany(dedup.jobs[j])
    /\ Len(dedup.out) < Len(dedup.jobs)

\* sub is an order-preserving subsequence of s: its elements can be matched,
\* in order, to strictly increasing positions of s.
RECURSIVE IsSubsequence(_, _)
IsSubsequence(sub, s) ==
    IF sub = <<>> THEN TRUE
    ELSE IF s = <<>> THEN FALSE
    ELSE IF Head(sub) = Head(s) THEN IsSubsequence(Tail(sub), Tail(s))
    ELSE IsSubsequence(sub, Tail(s))

\* C5: deduplicate_jobs is idempotent and shrinking: applied to its own
\* output it returns that output element for element, and its output is an
\* order-preserving subsequence of its input, no longer than the input.
C5_IdempotentShrinking ==
    /\ DedupDone =>
          /\ IsSubsequence(dedup.out, dedup.jobs)
          /\ Len(dedup.out) <= Len(dedup.jobs)
    /\ dedup.phase = "twice" => dedup.again = dedup.out

\* C5 witness: a second application has run on an output that is strictly
\* shorter than the input and still holds two postings.
C5_Witness ==
    /\ dedup.phase = "twice"
    /\ Len(dedup.out) < Len(dedup.jobs)
    /\ Len(dedup.again) = 2

\* The rule of section 4.4, stated on the postings kept so far: keep when
\* the URL is non-empty and not the URL of an earlier kept posting, or when
\* (the URL is empty or is such a URL) and the pair is not the pair of an
\* earlier kept posting.
KeptByRule(kept, job) ==
    LET urls == {u.url : u \in Range(kept)} \ {""}
        pairs == {TitleCompany(u) : u \in Range(kept)}
    IN  \/ job.url # "" /\ job.url \notin urls
        \/ /\ job.url = "" \/ job.url \in urls
           /\ TitleCompany(job) \notin pairs

RECURSIVE RuleLoop(_, _)
RuleLoop(jobs, n) ==
    IF n = 0 THEN <<>>
    ELSE LET kept == RuleLoop(jobs, n - 1)
         IN  IF KeptByRule(kept, jobs[n]) THEN Append(kept, jobs[n]) ELSE kept

----------------------------------------------------------------------------
(* The match engine (scrapers/matcher.py).                                 *)
(*                                                                         *)
(* A text is the set of the vocabulary phrases that occur in it after      *)
(* lower-casing, so "phrase in text" is membership.  The vocabulary keeps  *)
(* a few entries of each list of the source.                               *)

SCALE == 6 * 100

\* tech_terms of extract_job_requirements (149-158), two of them.
TechTerms == {"swift", "python"}

\* A word of a posting that is no tech term but is close to one.
NearWords == {"pyton"}

\* fuzz.ratio(skill, word) on the vocabulary: "python" / "pyton" is 91.
FuzzRatio(skill, word) ==
    IF skill = word THEN 100
    ELSE IF skill = "python" /\ word = "pyton" THEN 91
    ELSE 0

\* Skill strings as a resume lists them.
SkillStrings == {"Swift", "py"}

\* normalize_skill (70-78): lower-case, strip, then map a synonym to its
\* main skill (SKILL_SYNONYMS 20-39: 'py' is a synonym of 'python').
normalize_skill(skill) ==
    CASE skill = "Swift" -> "swift"
      [] skill = "py" -> "python"
      [] OTHER -> skill

get_skill_set(skills) == {normalize_skill(skill) : skill \in skills}

\* extract_job_requirements (144-165).
extract_job_requirements(job_text) == {term \in TechTerms : term \in job_text}

\* Phrases of a resume that one of SCALE_INDICATORS (61-67) matches, and the
\* index of the pattern that matches each.
ScalePhrases == {"1m users", "30% improvement", "high-traffic", "large-scale"}

ScalePatternOf(phrase) ==
    CASE phrase = "1m users" -> 1
      [] phrase = "30% improvement" -> 2
      [] phrase = "high-traffic" -> 4
      [] phrase = "large-scale" -> 5
      [] OTHER -> 0

NumScalePatterns == 8

\* calculate_technical_skills_score (86-141).
calculate_technical_skills_score(resume_skills, resume_text, job_text) ==
    IF resume_skills = {} THEN (3 * SCALE) \div 10
    ELSE
    LET resume_skill_set == get_skill_set(resume_skills)
        forward_matches ==
            Cardinality({skill \in resume_skill_set :
                \/ skill \in job_text
                \/ \E word \in job_text : FuzzRatio(skill, word) > 85})
        forward_ratio == (forward_matches * SCALE) \div Cardinality(resume_skill_set)
        job_skill_indicators == extract_job_requirements(job_text)
        full == {req \in job_skill_indicators :
                    normalize_skill(req) \in resume_skill_set}
        partial == {req \in job_skill_indicators \ full : req \in resume_text}
        \* reverse_matches, in tenths: 1 for a skill, 0.7 for a mention
        reverse_matches10 == 10 * Cardinality(full) + 7 * Cardinality(partial)
        reverse_ratio ==
            IF job_skill_indicators # {}
            THEN (reverse_matches10 * SCALE)
                     \div (10 * Cardinality(job_skill_indicators))
            ELSE SCALE \div 2
        hits == Cardinality({i \in 1..NumScalePatterns :
                    \E phrase \in resume_text : ScalePatternOf(phrase) = i})
        depth_bonus == Min((hits * 5 * SCALE) \div 100, (15 * SCALE) \div 100)
        total == (forward_ratio * 5) \div 10 + (reverse_ratio * 4) \div 10
                     + depth_bonus
    IN  Min(SCALE, Max(0, total))

\* ARCHITECTURE_KEYWORDS (42-49), two of them.
ArchitectureKeywords == {"mvvm", "tdd"}

\* calculate_architecture_quality_score without min(1.0, total).
calculate_architecture_quality_scoreUncapped(resume_text, job_text) ==
    LET resume_arch_count == Cardinality(ArchitectureKeywords \cap resume_text)
        job_arch_count == Cardinality(ArchitectureKeywords \cap job_text)
        matches == Cardinality(ArchitectureKeywords \cap resume_text \cap job_text)
        coverage ==
            IF job_arch_count > 0
            THEN (matches * SCALE) \div job_arch_count
            ELSE (Min((resume_arch_count * SCALE) \div 5, SCALE) * 7) \div 10
                     + (3 * SCALE) \div 10
        arch_bonus == Min((resume_arch_count * SCALE) \div 8, (2 * SCALE) \div 10)
    IN  coverage + arch_bonus

\* calculate_architecture_quality_score (168-209).
calculate_architecture_quality_score(resume_text, job_text) ==
    LET resume_arch_count == Cardinality(ArchitectureKeywords \cap resume_text)
        job_arch_count == Cardinality(ArchitectureKeywords \cap job_text)
        matches == Cardinality(ArchitectureKeywords \cap resume_text \cap job_text)
        coverage ==
            IF job_arch_count > 0
            THEN (matches * SCALE) \div job_arch_count
            ELSE (Min((resume_arch_count * SCALE) \div 5, SCALE) * 7) \div 10
                     + (3 * SCALE) \div 10
        arch_bonus == Min((resume_arch_count * SCALE) \div 8, (2 * SCALE) \div 10)
    IN  Min(SCALE, coverage + arch_bonus)

\* COLLABORATION_KEYWORDS (52-58), two of them.
CollaborationKeywords == {"team", "lead"}

\* calculate_collaboration_score (212-252).
calculate_collaboration_score(resume_text, job_text) ==
    LET resume_collab_count == Cardinality(CollaborationKeywords \cap resume_text)
        job_collab_count == Cardinality(CollaborationKeywords \cap job_text)
        matches == Cardinality(CollaborationKeywords \cap resume_text \cap job_text)
        coverage ==
            IF job_collab_count > 0
            THEN (matches * SCALE) \div job_collab_count
            ELSE (6 * SCALE) \div 10
        collab_bonus ==
            Min((resume_collab_count * SCALE) \div 6, (15 * SCALE) \div 100)
    IN  Min(SCALE, coverage + collab_bonus)

\* The marker of a key that a dictionary does not carry.
Absent == 0 - 1

\* resume_data.get('yearsExperience', 0) or 0 (389)
ResumeYears(yearsExperience) ==
    IF yearsExperience = Absent THEN 0 ELSE yearsExperience

\* Phrases of a posting that one of exp_patterns (268-272) matches.
YearsPhrases == {"3+ years experience", "3-5 years experience",
                 "2 to 4 years", "10+ years of experience",
                 "1 year of experience", "4+ years experience"}

\* The first pattern that matches the phrase and its group(1).  The first
\* pattern finds "5 years experience" inside "3-5 years experience".
YearsMatch(phrase) ==
    CASE phrase = "3+ years experience" -> [pattern |-> 1, years |-> 3]
      [] phrase = "3-5 years experience" -> [pattern |-> 1, years |-> 5]
      [] phrase = "2 to 4 years" -> [pattern |-> 3, years |-> 2]
      [] phrase = "10+ years of experience" -> [pattern |-> 1, years |-> 10]
      [] phrase = "1 year of experience" -> [pattern |-> 1, years |-> 1]
      [] phrase = "4+ years experience" -> [pattern |-> 1, years |-> 4]

SeniorityWords == {"principal", "senior", "lead", "junior"}

\* The required years of a posting (267-295): the first pattern, in the
\* order of exp_patterns, that matches; else the seniority words.
RequiredYears(job_text) ==
    LET found == job_text \cap YearsPhrases
    IN  IF found # {}
        THEN LET first == CHOOSE ph \in found :
                     \A other \in found :
                         YearsMatch(ph).pattern <= YearsMatch(other).pattern
             IN  YearsMatch(first).years
        ELSE IF "principal" \in job_text THEN 8
        ELSE IF "senior" \in job_text THEN 5
        ELSE IF "lead" \in job_text THEN 6
        ELSE IF "junior" \in job_text THEN 0
        ELSE 3

\* calculate_experience_match with the overage bands one year early.
calculate_experience_matchEarlyBands(years, job_text) ==
    LET resume_years == IF years = 0 THEN 3 ELSE years
        required_years == RequiredYears(job_text)
    IN  IF resume_years >= required_years
        THEN LET overage == resume_years - required_years
             IN  IF overage >= 7 THEN (75 * SCALE) \div 100
                 ELSE IF overage >= 4 THEN (85 * SCALE) \div 100
                 ELSE SCALE
        ELSE LET gap == required_years - resume_years
             IN  IF gap <= 1 THEN (85 * SCALE) \div 100
                 ELSE IF gap <= 2 THEN (65 * SCALE) \div 100
                 ELSE IF gap <= 3 THEN (45 * SCALE) \div 100
                 ELSE (25 * SCALE) \div 100

\* calculate_experience_match taking 0 years as 0 years.
calculate_experience_matchNoDefault(years, job_text) ==
    LET resume_years == years
        required_years == RequiredYears(job_text)
    IN  IF resume_years >= required_years
        THEN LET overage == resume_years - required_years
             IN  IF overage > 7 THEN (75 * SCALE) \div 100
                 ELSE IF overage > 4 THEN (85 * SCALE) \div 100
                 ELSE SCALE
        ELSE LET gap == required_years - resume_years
             IN  IF gap <= 1 THEN (85 * SCALE) \div 100
                 ELSE IF gap <= 2 THEN (65 * SCALE) \div 100
                 ELSE IF gap <= 3 THEN (45 * SCALE) \div 100
                 ELSE (25 * SCALE) \div 100

\* calculate_experience_match (255-317): 0 years stand for "not specified"
\* and count as 3 (262-263).
calculate_experience_match(years, job_text) ==
    LET resume_years == IF years = 0 THEN 3 ELSE years
        required_years == RequiredYears(job_text)
    IN  IF resume_years >= required_years
        THEN LET overage == resume_years - required_years
             IN  IF overage > 7 THEN (75 * SCALE) \div 100
                 ELSE IF overage > 4 THEN (85 * SCALE) \div 100
                 ELSE SCALE
        ELSE LET gap == required_years - resume_years
             IN  IF gap <= 1 THEN (85 * SCALE) \div 100
                 ELSE IF gap <= 2 THEN (65 * SCALE) \div 100
                 ELSE IF gap <= 3 THEN (45 * SCALE) \div 100
                 ELSE (25 * SCALE) \div 100

\* Locations.  "" stands for an absent or empty location.
Locations == {"", "Remote", "REMOTE", "Fully remote (Japan)", "Tokyo, Japan",
              "Japan", "Osaka, Japan", "Austin, TX", "Dallas, TX", "Berlin"}

\* 'remote' in location, without lower().
HasRemoteCaseSensitive(loc) == loc = "Fully remote (Japan)"

\* 'remote' in location.lower()
HasRemote(loc) == loc \in {"Remote", "REMOTE", "Fully remote (Japan)"}

\* a.lower() in b.lower()
LocSubstring(a, b) ==
    \/ a = b
    \/ {a, b} = {"Remote", "REMOTE"}
    \/ a \in {"Remote", "REMOTE"} /\ b = "Fully remote (Japan)"
    \/ a = "Japan" /\ b \in {"Tokyo, Japan", "Osaka, Japan", "Fully remote (Japan)"}

\* The entries of countries (346) that occur in location.lower(): 'us'
\* occurs in "austin".
CountriesIn(loc) ==
    CASE loc \in {"Tokyo, Japan", "Japan", "Osaka, Japan", "Fully remote (Japan)"}
            -> {"japan"}
      [] loc = "Austin, TX" -> {"us"}
      [] OTHER -> {}

\* re.search(r'\b([A-Z]{2})\b', location): "" when there is no match.
StateCode(loc) == IF loc \in {"Austin, TX", "Dallas, TX"} THEN "TX" ELSE ""

\* calculate_location_match (320-357).
calculate_location_match(resume_location, job_location) ==
    IF job_location = "" THEN (7 * SCALE) \div 10
    ELSE IF HasRemote(job_location) THEN SCALE
    ELSE IF resume_location = "" THEN (5 * SCALE) \div 10
    ELSE IF \/ LocSubstring(resume_location, job_location)
            \/ LocSubstring(job_location, resume_location) THEN SCALE
    ELSE IF CountriesIn(resume_location) \cap CountriesIn(job_location) # {}
         THEN (8 * SCALE) \div 10
    ELSE IF /\ StateCode(resume_location) # ""
            /\ StateCode(resume_location) = StateCode(job_location)
         THEN (85 * SCALE) \div 100
    ELSE (3 * SCALE) \div 10

\* weights (406-412), in hundredths.
SkillsWeight == 40

ArchitectureWeight == 20

CollaborationWeight == 15

ExperienceWeight == 15

LocationWeight == 10

\* A total score t in [0,1] is the integer t * ONE.
ONE == SCALE * 100

\* The vocabulary phrases in a title.
TitleText(title) == IF title = "Lead Dev" THEN {"lead"} ELSE {}

\* The text ' '.join(words), lower-cased.
JoinedText(words) == {Lower(w) : w \in words}

\* The weighted total and its clamp (415-424).
TotalScoreUnclamped(skills, architecture, collaboration, experience, location) ==
    skills * SkillsWeight + architecture * ArchitectureWeight
        + collaboration * CollaborationWeight + experience * ExperienceWeight
        + location * LocationWeight

TotalScore(skills, architecture, collaboration, experience, location) ==
    Max(0, Min(ONE,
        TotalScoreUnclamped(skills, architecture, collaboration, experience,
                            location)))

\* The returned dictionary (427-439).
Breakdown(skills, architecture, collaboration, experience, location) ==
    [totalScore |-> TotalScore(skills, architecture, collaboration, experience,
                               location),
     skillsScore |-> skills, skillsWeight |-> SkillsWeight,
     keywordsScore |-> architecture, keywordsWeight |-> ArchitectureWeight,
     experienceScore |-> experience, experienceWeight |-> ExperienceWeight,
     locationScore |-> location, locationWeight |-> LocationWeight,
     titleScore |-> collaboration, titleWeight |-> CollaborationWeight]

\* calculate_match_breakdown (371-439).
calculate_match_breakdown(resume, job) ==
    LET resume_skills == resume.skills
        resume_text == IF resume.text # {} THEN resume.text
                       ELSE JoinedText(resume.skills \cup resume.keywords)
        job_text == TitleText(job.title) \cup job.description
    IN  Breakdown(
            calculate_technical_skills_score(resume_skills, resume_text, job_text),
            calculate_architecture_quality_score(resume_text, job_text),
            calculate_collaboration_score(resume_text, job_text),
            calculate_experience_match(ResumeYears(resume.yearsExperience), job_text),
            calculate_location_match(resume.location, job.location))

\* calculate_match_score (360-368).
calculate_match_score(resume, job) == calculate_match_breakdown(resume, job).totalScore

----------------------------------------------------------------------------
(* SpecScore: calculate_match_breakdown call by call.  Each sub-score      *)
(* function is applied to every input over its own part of the vocabulary; *)
(* the state keeps the sub-scores, then the breakdown, then the matchScore *)
(* that search_all_boards stores in the posting.                           *)

MaxYears == 12

\* Posting texts for the experience match: at most one years phrase.
ExperienceTexts ==
    {yp \cup sw : yp \in {{}} \cup {{ph} : ph \in YearsPhrases},
                  sw \in SUBSET SeniorityWords}

Unset == 0 - 1

NoScore == [phase |-> "off"]

ScoreStart ==
    [phase |-> "start", skillsScore |-> Unset, architectureScore |-> Unset,
     collaborationScore |-> Unset, experienceScore |-> Unset,
     locationScore |-> Unset, breakdown |-> <<>>, matchScore |-> 0]

ScoreSpecInit ==
    /\ score = ScoreStart
    /\ request = NoRequest
    /\ main = NoMain
    /\ parse = NoParse
    /\ dedup = NoDedup
    /\ filters = [off |-> TRUE]
    /\ resume_data = [off |-> TRUE]
    /\ pc = "off"
    /\ task = <<>>
    /\ outcome = <<>>
    /\ all_jobs = <<>>
    /\ errors = <<>>
    /\ completed_scrapers = 0
    /\ collected = <<>>
    /\ progress = <<>>
    /\ settled = <<>>
    /\ unique_jobs = <<>>
    /\ result = [off |-> TRUE]

\* matcher.py 399
ScoreSkills ==
    /\ score.phase = "start"
    /\ \E resume_skills \in SUBSET SkillStrings,
          resume_text \in SUBSET (TechTerms \cup ScalePhrases),
          job_text \in SUBSET (TechTerms \cup NearWords) :
          score' = [score EXCEPT
              !.phase = "skills",
              !.skillsScore = calculate_technical_skills_score(
                                  resume_skills, resume_text, job_text)]
    /\ UNCHANGED <<orchVars, dedup, request, main, parse>>

\* matcher.py 400
ScoreArchitecture ==
    /\ score.phase = "skills"
    /\ \E resume_text \in SUBSET ArchitectureKeywords,
          job_text \in SUBSET ArchitectureKeywords :
          score' = [score EXCEPT
              !.phase = "architecture",
              !.architectureScore =
                  calculate_architecture_quality_score(resume_text, job_text)]
    /\ UNCHANGED <<orchVars, dedup, request, main, parse>>

\* matcher.py 401
ScoreCollaboration ==
    /\ score.phase = "architecture"
    /\ \E resume_text \in SUBSET CollaborationKeywords,
          job_text \in SUBSET CollaborationKeywords :
          score' = [score EXCEPT
              !.phase = "collaboration",
              !.collaborationScore =
                  calculate_collaboration_score(resume_text, job_text)]
    /\ UNCHANGED <<orchVars, dedup, request, main, parse>>

\* matcher.py 402
ScoreExperience ==
    /\ score.phase = "collaboration"
    /\ \E resume_years \in 0..MaxYears, job_text \in ExperienceTexts :
          score' = [score EXCEPT
              !.phase = "experience",
              !.experienceScore = calculate_experience_match(resume_years, job_text)]
    /\ UNCHANGED <<orchVars, dedup, request, main, parse>>

\* matcher.py 403
ScoreLocation ==
    /\ score.phase = "experience"
    /\ \E resume_location \in Locations, job_location \in Locations :
          score' = [score EXCEPT
              !.phase = "location",
              !.locationScore =
                  calculate_location_match(resume_location, job_location)]
    /\ UNCHANGED <<orchVars, dedup, request, main, parse>>

\* matcher.py 405-439
ScoreTotal ==
    /\ score.phase = "location"
    /\ score' = [score EXCEPT
           !.phase = "total",
           !.breakdown = Breakdown(score.skillsScore, score.architectureScore,
                                   score.collaborationScore, score.experienceScore,
                                   score.locationScore)]
    /\ UNCHANGED <<orchVars, dedup, request, main, parse>>

\* job_search.py 89-90: job['matchScore'] = calculate_match_score(...)
AssignMatchScore ==
    /\ score.phase = "total"
    /\ score' = [score EXCEPT !.phase = "assigned",
                              !.matchScore = score.breakdown.totalScore]
    /\ UNCHANGED <<orchVars, dedup, request, main, parse>>

ScoreNext ==
    \/ ScoreSkills
    \/ ScoreArchitecture
    \/ ScoreCollaboration
    \/ ScoreExperience
    \/ ScoreLocation
    \/ ScoreTotal
    \/ AssignMatchScore

SpecScore == ScoreSpecInit /\ [][ScoreNext]_vars

----------------------------------------------------------------------------
(* Claims about the match engine.                                          *)

InUnit(x) == 0 <= x /\ x <= SCALE

\* C8: each of the five sub-scores lies in [0,1]; the five weights
\* (0.40, 0.20, 0.15, 0.15, 0.10) sum to exactly 1.0; totalScore is the
\* weighted sum of the sub-scores clamped to [0,1]; and the matchScore
\* stored in a posting is that totalScore, in [0,1].
C8_ScoresInUnitInterval ==
    /\ \A f \in {"skillsScore", "architectureScore", "collaborationScore",
                 "experienceScore", "locationScore"} :
          score[f] # Unset => InUnit(score[f])
    /\ score.phase \in {"total", "assigned"} =>
          LET b == score.breakdown
              sum == b.skillsScore * b.skillsWeight
                       + b.keywordsScore * b.keywordsWeight
                       + b.titleScore * b.titleWeight
                       + b.experienceScore * b.experienceWeight
                       + b.locationScore * b.locationWeight
          IN  /\ b.skillsWeight = 40 /\ b.keywordsWeight = 20
              /\ b.titleWeight = 15 /\ b.experienceWeight = 15
              /\ b.locationWeight = 10
              /\ b.skillsWeight + b.keywordsWeight + b.titleWeight
                    + b.experienceWeight + b.locationWeight = 100
              /\ b.skillsScore = score.skillsScore
              /\ b.keywordsScore = score.architectureScore
              /\ b.titleScore = score.collaborationScore
              /\ b.experienceScore = score.experienceScore
              /\ b.locationScore = score.locationScore
              /\ b.totalScore = IF sum > ONE THEN ONE ELSE IF sum < 0 THEN 0 ELSE sum
              /\ 0 <= b.totalScore /\ b.totalScore <= ONE
    /\ score.phase = "assigned" =>
          /\ score.matchScore = score.breakdown.totalScore
          /\ 0 <= score.matchScore /\ score.matchScore <= ONE

\* C8 witness: a posting got a matchScore strictly between 0 and 1 from a
\* breakdown whose architecture sub-score reached the cap of 1.0.
C8_Witness ==
    /\ score.phase = "assigned"
    /\ score.architectureScore = SCALE
    /\ score.skillsScore < SCALE
    /\ 0 < score.matchScore /\ score.matchScore < ONE

----------------------------------------------------------------------------
(* The adapters (scrapers/*.py): what search returns or raises and the     *)
(* fractions it passes to log_progress on the way.                         *)

PSCALE == 12 * 100

\* The fraction pct / 100.
Pct(pct) == pct * (PSCALE \div 100)

\* job_search.py 36-41
scrapers == <<"LinkedIn", "Indeed", "Greenhouse", "Workday">>

Adapters == Range(scrapers)

\* get_source_name of each scraper class.
get_source_name(scraper) == scraper

\* filters.get('maxResults', 100) when the request gives an integer; the
\* model takes it large enough not to truncate any list.
DefaultMaxResults == 100

MAX_PAGES == 5

JOBS_PER_PAGE == 25

NumBoards == 16

Returned(jobs, events) ==
    [raised |-> FALSE, jobs |-> jobs, message |-> "", events |-> events]

Raised(message, events) ==
    [raised |-> TRUE, jobs |-> <<>>, message |-> message, events |-> events]

\* WorkdayScraper.search (workday_scraper.py 32-65): a placeholder.
WorkdaySearch == Returned(<<>>, <<Pct(10), Pct(90)>>)

\* IndeedScraper.search (indeed_scraper.py 21-91).  An exception of
\* make_request or of the slice job_cards[:max_results] is logged with 0.0
\* and raised again.
IndeedSearch(fail, found, maxResultsIsInt) ==
    LET n == Len(found)
        cards == [idx \in 1..n |-> Pct(30) + ((idx - 1) * Pct(60)) \div n]
    IN  IF fail THEN Raised("RetryError", <<Pct(10), 0>>)
        ELSE IF ~maxResultsIsInt THEN Raised("TypeError", <<Pct(10), Pct(30), 0>>)
        ELSE Returned(found, <<Pct(10), Pct(30)>> \o cards \o <<Pct(90)>>)

\* GreenhouseScraper.search (greenhouse_scraper.py 26-66).  A failing
\* request is swallowed by scrape_company_board (124-125); comparing
\* len(all_jobs) with a max_results that is no number raises inside the
\* loop (logged with 0.0), and the final slice, outside every try, raises
\* out of search.
GreenhouseSearch(fail, found, maxResultsIsInt) ==
    LET board(idx) == Pct(10) + ((idx - 1) * Pct(80)) \div NumBoards
        boards == [i \in 1..NumBoards |-> board(i)]
        boardsBad == [i \in 1..(2 * NumBoards) |->
                         IF i % 2 = 1 THEN board((i + 1) \div 2) ELSE 0]
    IN  IF ~maxResultsIsInt
        THEN Raised("TypeError", <<Pct(10)>> \o boardsBad \o <<Pct(90)>>)
        ELSE Returned(IF fail THEN <<>> ELSE found,
                      <<Pct(10)>> \o boards \o <<Pct(90)>>)

\* LinkedInScraper.search (linkedin_scraper.py 64-194).  Every exception is
\* logged with 0.0 and an empty list returned (104-106, 187-194).  A search
\* that finds postings reads them from the first page and stops at the
\* second, which is empty.
LinkedInSearch(fail, found, maxResultsIsInt) ==
    LET max_pages == Min(MAX_PAGES,
                         (DefaultMaxResults + JOBS_PER_PAGE - 1) \div JOBS_PER_PAGE)
        loading(page) == Pct(10) + (page * Pct(60)) \div max_pages
        foundAt(page) == Pct(10) + ((2 * page + 1) * Pct(60)) \div (2 * max_pages)
    IN  IF ~maxResultsIsInt THEN Returned(<<>>, <<Pct(5), 0, 0>>)
        ELSE IF fail THEN Returned(<<>>, <<Pct(5), 0>>)
        ELSE IF found = <<>>
             THEN Returned(<<>>, <<Pct(5), Pct(10), loading(0), Pct(70), Pct(80)>>)
        ELSE Returned(found, <<Pct(5), Pct(10), loading(0), 0, foundAt(0), 0,
                                loading(1), Pct(70), Pct(80)>>)

\* The adapters that go to the network: WorkdayScraper.search is a
\* placeholder that requests nothing (workday_scraper.py 49-60).
MakesRequests(scraper) == scraper # "Workday"

\* scraper.search(...) as run_scraper calls it (job_search.py 121-129).
search(scraper, fail, found, maxResultsIsInt) ==
    CASE scraper = "LinkedIn" -> LinkedInSearch(fail, found, maxResultsIsInt)
      [] scraper = "Indeed" -> IndeedSearch(fail, found, maxResultsIsInt)
      [] scraper = "Greenhouse" -> GreenhouseSearch(fail, found, maxResultsIsInt)
      [] scraper = "Workday" -> WorkdaySearch

----------------------------------------------------------------------------
(* The postings the boards can hold and the requests of a run.             *)

MaxFound == 1

Posting(source, url, title, company, location, description, visa) ==
    [source |-> source, url |-> url, title |-> title, company |-> company,
     location |-> location, description |-> description,
     visaSponsorship |-> visa, companySize |-> "", matchScore |-> 0]

\* What each board can list.  companySize is None for every adapter
\* (indeed_scraper.py 147, greenhouse_scraper.py 119, linkedin_scraper.py 495).
Board(scraper) ==
    CASE scraper = "LinkedIn" ->
            {Posting("LinkedIn", "u1", "Dev", "Acme", "Remote", {"swift", "tdd"}, "true"),
             Posting("LinkedIn", "u2", "Ops", "Acme", "Berlin", {}, "false")}
      [] scraper = "Indeed" ->
            {Posting("Indeed", "u1", "Ops", "ACME", "Berlin", {}, "null"),
             Posting("Indeed", "", "dev", "acme", "Remote", {"swift", "tdd"}, "null")}
      [] scraper = "Greenhouse" ->
            {Posting("Greenhouse", "u2", "Lead Dev", "Acme", "Tokyo, Japan",
                     {"python"}, "null"),
             Posting("Greenhouse", "", "Ops", "Acme", "Berlin", {}, "null")}
      [] scraper = "Workday" -> {}

\* The requests: filters as main passes them (job_search.py 200).
Filters(maxResultsIsInt, minimumMatchScore, techStack) ==
    [maxResultsIsInt |-> maxResultsIsInt, minimumMatchScore |-> minimumMatchScore,
     techStack |-> techStack, visaSponsorship |-> FALSE, companyTypes |-> {}]

RunFilters ==
    {Filters(TRUE, Absent, {}), Filters(TRUE, 0, {}), Filters(TRUE, 0, {"Swift"}),
     Filters(FALSE, Absent, {})}

RunResumes ==
    {[skills |-> {"Swift"}, text |-> {}, keywords |-> {"tdd"},
      location |-> "Tokyo, Japan", yearsExperience |-> 5]}

----------------------------------------------------------------------------
(* apply_filters and the sort (job_search.py 97, 153-181).                 *)

\* filters.get('minimumMatchScore', 0.5)
MinimumMatchScore(f) ==
    IF f.minimumMatchScore = Absent THEN ONE \div 2 ELSE f.minimumMatchScore

\* 158-159
ByScore(jobs, f) ==
    SelectSeq(jobs, LAMBDA j : j.matchScore >= MinimumMatchScore(f))

\* ByTechStack comparing the tech names as written.
ByTechStackCaseSensitive(jobs, f) ==
    IF f.techStack # {}
    THEN SelectSeq(jobs, LAMBDA j : \E tech \in f.techStack : tech \in j.description)
    ELSE jobs

\* 162-167: any(tech.lower() in description.lower() for tech in tech_filter)
ByTechStack(jobs, f) ==
    IF f.techStack # {}
    THEN SelectSeq(jobs,
             LAMBDA j : \E tech \in f.techStack : Lower(tech) \in j.description)
    ELSE jobs

\* 170-171
ByVisa(jobs, f) ==
    IF f.visaSponsorship
    THEN SelectSeq(jobs, LAMBDA j : j.visaSponsorship = "true")
    ELSE jobs

\* ByCompanyType dropping the postings without a companySize.
ByCompanyTypeStrict(jobs, f) ==
    IF f.companyTypes # {}
    THEN SelectSeq(jobs, LAMBDA j : j.companySize \in f.companyTypes)
    ELSE jobs

\* 174-179: companySize in company_types or not companySize
ByCompanyType(jobs, f) ==
    IF f.companyTypes # {}
    THEN SelectSeq(jobs,
             LAMBDA j : j.companySize \in f.companyTypes \/ j.companySize = "")
    ELSE jobs

\* apply_filters (153-181): four list comprehensions, one after the other.
apply_filters(jobs, f) ==
    ByCompanyType(ByVisa(ByTechStack(ByScore(jobs, f), f), f), f)

\* InsertByScore putting job ahead of the postings of equal score.
InsertUnstable(sorted, job) ==
    LET ahead == Cardinality({i \in DOMAIN sorted :
                     sorted[i].matchScore > job.matchScore})
    IN  SubSeq(sorted, 1, ahead) \o <<job>> \o SubSeq(sorted, ahead + 1, Len(sorted))

\* Where list.sort(key=matchScore, reverse=True) puts job among postings
\* already in order: behind every posting whose score is not lower.
InsertByScore(sorted, job) ==
    LET ahead == Cardinality({i \in DOMAIN sorted :
                     sorted[i].matchScore >= job.matchScore})
    IN  SubSeq(sorted, 1, ahead) \o <<job>> \o SubSeq(sorted, ahead + 1, Len(sorted))

\* unique_jobs.sort(key=lambda j: j.get('matchScore', 0.0), reverse=True):
\* a stable sort, descending.
RECURSIVE SortPrefix(_, _)
SortPrefix(jobs, n) ==
    IF n = 0 THEN <<>> ELSE InsertByScore(SortPrefix(jobs, n - 1), jobs[n])

SortByScore(jobs) == SortPrefix(jobs, Len(jobs))

----------------------------------------------------------------------------
(* Spec: one run of search_all_boards (job_search.py 24-106).              *)

\* ThreadPoolExecutor(max_workers=4)
MaxWorkers == 4

total_scrapers == Len(scrapers)

NotCollected == [extended |-> 0, failed |-> 0]

\* exhausted: every outbound request of the adapter failed, retries included.
NoOutcome == [raised |-> FALSE, jobs |-> <<>>, message |-> "", exhausted |-> FALSE]

Init ==
    /\ filters \in RunFilters
    /\ resume_data \in RunResumes
    /\ pc = "submit"
    /\ task = [a \in Adapters |-> "new"]
    /\ outcome = [a \in Adapters |-> NoOutcome]
    /\ all_jobs = <<>>
    /\ errors = <<>>
    /\ completed_scrapers = 0
    /\ collected = [a \in Adapters |-> NotCollected]
    /\ progress = <<>>
    /\ settled = <<>>
    /\ unique_jobs = <<>>
    /\ result = [jobs |-> <<>>, errors |-> <<>>]
    /\ dedup = NoDedup
    /\ score = NoScore
    /\ request = NoRequest
    /\ main = NoMain
    /\ parse = NoParse

Running == {a \in DOMAIN task : task[a] = "running"}

\* 54-64: every scraper is submitted to the pool.
SubmitAll ==
    /\ pc = "submit"
    /\ task' = [a \in DOMAIN task |-> "queued"]
    /\ pc' = "collect"
    /\ UNCHANGED <<filters, resume_data, outcome, all_jobs, errors,
                   completed_scrapers, collected, progress, settled,
                   unique_jobs, result, dedup, score, request, main, parse>>

\* StartScraper on a pool that starts a thread for every submitted task.
StartScraperNoLimit(a) ==
    /\ task[a] = "queued"
    /\ task' = [task EXCEPT ![a] = "running"]
    /\ progress' = <<0>>
    /\ UNCHANGED <<filters, resume_data, pc, outcome, all_jobs, errors,
                   completed_scrapers, collected, settled, unique_jobs,
                   result, dedup, score, request, main, parse>>

\* A free worker takes a queued task: run_scraper logs 0.0 (118-119).
StartScraper(a) ==
    /\ task[a] = "queued"
    /\ Cardinality(Running) < MaxWorkers
    /\ task' = [task EXCEPT ![a] = "running"]
    /\ progress' = <<0>>
    /\ UNCHANGED <<filters, resume_data, pc, outcome, all_jobs, errors,
                   completed_scrapers, collected, settled, unique_jobs,
                   result, dedup, score, request, main, parse>>

\* FinishScraper with the worker thread extending the accumulator itself.
FinishScraperExtends(a) ==
    /\ task[a] = "running"
    /\ \E fail \in BOOLEAN, found \in SeqsUpTo(Board(a), MaxFound) :
          LET r == search(a, fail, found, filters.maxResultsIsInt)
          IN  /\ outcome' = [outcome EXCEPT ![a] =
                     [raised |-> r.raised, jobs |-> r.jobs, message |-> r.message,
                      exhausted |-> fail /\ MakesRequests(a)]]
              /\ progress' = r.events
              /\ all_jobs' = all_jobs \o r.jobs
    /\ task' = [task EXCEPT ![a] = "done"]
    /\ UNCHANGED <<filters, resume_data, pc, errors,
                   completed_scrapers, collected, settled, unique_jobs,
                   result, dedup, score, request, main, parse>>

\* run_scraper's call of search returns or raises (121-129); the future
\* is done.
FinishScraper(a) ==
    /\ task[a] = "running"
    /\ \E fail \in BOOLEAN, found \in SeqsUpTo(Board(a), MaxFound) :
          LET r == search(a, fail, found, filters.maxResultsIsInt)
          IN  /\ outcome' = [outcome EXCEPT ![a] =
                     [raised |-> r.raised, jobs |-> r.jobs, message |-> r.message,
                      exhausted |-> fail /\ MakesRequests(a)]]
              /\ progress' = r.events
    /\ task' = [task EXCEPT ![a] = "done"]
    /\ UNCHANGED <<filters, resume_data, pc, all_jobs, errors,
                   completed_scrapers, collected, settled, unique_jobs,
                   result, dedup, score, request, main, parse>>

\* ErrorMessage without the source name.
ErrorMessageNoSource(source_name, message) == [source |-> "", message |-> message]

\* error_msg = f"{source_name}: {str(e)}" (80)
ErrorMessage(source_name, message) == [source |-> source_name, message |-> message]

\* Collect without the except branch: the exception of future.result()
\* leaves search_all_boards.
CollectAbortOnError(a) ==
    /\ pc = "collect"
    /\ task[a] = "done"
    /\ collected[a] = NotCollected
    /\ IF outcome[a].raised
       THEN /\ pc' = "raised"
            /\ UNCHANGED <<errors, collected, all_jobs, progress,
                           completed_scrapers, settled>>
       ELSE /\ all_jobs' = all_jobs \o outcome[a].jobs
            /\ collected' = [collected EXCEPT ![a].extended = @ + 1]
            /\ completed_scrapers' = completed_scrapers + 1
            /\ progress' =
                   <<Pct(20) + ((completed_scrapers + 1) * Pct(60)) \div total_scrapers>>
            /\ settled' = Append(settled, a)
            /\ UNCHANGED <<errors, pc>>
    /\ UNCHANGED <<filters, resume_data, task, outcome, unique_jobs, result,
                   dedup, score, request, main, parse>>

\* The body of the as_completed loop for one done future (67-84).
Collect(a) ==
    /\ pc = "collect"
    /\ task[a] = "done"
    /\ collected[a] = NotCollected
    /\ LET source_name == get_source_name(a)
       IN  IF outcome[a].raised
           THEN /\ errors' = Append(errors,
                                    ErrorMessage(source_name, outcome[a].message))
                /\ collected' = [collected EXCEPT ![a].failed = @ + 1]
                /\ progress' = <<0>>
                /\ UNCHANGED all_jobs
           ELSE /\ all_jobs' = all_jobs \o outcome[a].jobs
                /\ collected' = [collected EXCEPT ![a].extended = @ + 1]
                /\ progress' =
                       <<Pct(20) + ((completed_scrapers + 1) * Pct(60))
                                       \div total_scrapers>>
                /\ UNCHANGED errors
    /\ completed_scrapers' = completed_scrapers + 1
    /\ settled' = Append(settled, a)
    /\ UNCHANGED <<filters, resume_data, pc, task, outcome, unique_jobs,
                   result, dedup, score, request, main, parse>>

\* CalculateScores going on only when no adapter raised.
CalculateScoresNeedsAllSucceeded ==
    /\ pc = "collect"
    /\ \A a \in Adapters : collected[a].extended = 1
    /\ progress' = <<Pct(85)>>
    /\ all_jobs' = [i \in DOMAIN all_jobs |->
           [all_jobs[i] EXCEPT
               !.matchScore = calculate_match_score(resume_data, all_jobs[i])]]
    /\ pc' = "dedup"
    /\ UNCHANGED <<filters, resume_data, task, outcome, errors,
                   completed_scrapers, collected, settled, unique_jobs,
                   result, dedup, score, request, main, parse>>

\* CalculateScores as soon as one adapter is collected.
CalculateScoresEarly ==
    /\ pc = "collect"
    /\ \E a \in Adapters : collected[a] # NotCollected
    /\ progress' = <<Pct(85)>>
    /\ all_jobs' = [i \in DOMAIN all_jobs |->
           [all_jobs[i] EXCEPT
               !.matchScore = calculate_match_score(resume_data, all_jobs[i])]]
    /\ pc' = "dedup"
    /\ UNCHANGED <<filters, resume_data, task, outcome, errors,
                   completed_scrapers, collected, settled, unique_jobs,
                   result, dedup, score, request, main, parse>>

\* 86-90: as_completed is exhausted and the pool shut down; every posting
\* gets its matchScore.
CalculateScores ==
    /\ pc = "collect"
    /\ \A a \in Adapters : collected[a] # NotCollected
    /\ progress' = <<Pct(85)>>
    /\ all_jobs' = [i \in DOMAIN all_jobs |->
           [all_jobs[i] EXCEPT
               !.matchScore = calculate_match_score(resume_data, all_jobs[i])]]
    /\ pc' = "dedup"
    /\ UNCHANGED <<filters, resume_data, task, outcome, errors,
                   completed_scrapers, collected, settled, unique_jobs,
                   result, dedup, score, request, main, parse>>

\* 92-94
Deduplicate ==
    /\ pc = "dedup"
    /\ progress' = <<Pct(90)>>
    /\ unique_jobs' = deduplicate_jobs(all_jobs)
    /\ pc' = "sort"
    /\ UNCHANGED <<filters, resume_data, task, outcome, all_jobs, errors,
                   completed_scrapers, collected, settled, result, dedup, score, request, main, parse>>

\* 96-97
Sort ==
    /\ pc = "sort"
    /\ unique_jobs' = SortByScore(unique_jobs)
    /\ pc' = "filter"
    /\ UNCHANGED <<filters, resume_data, task, outcome, all_jobs, errors,
                   completed_scrapers, collected, progress, settled, result,
                   dedup, score, request, main, parse>>

\* 99-106
FilterAndReturn ==
    /\ pc = "filter"
    /\ progress' = <<Pct(95)>>
    /\ result' = [jobs |-> apply_filters(unique_jobs, filters), errors |-> errors]
    /\ pc' = "done"
    /\ UNCHANGED <<filters, resume_data, task, outcome, all_jobs, errors,
                   completed_scrapers, collected, settled, unique_jobs,
                   dedup, score, request, main, parse>>

Next ==
    \/ SubmitAll
    \/ \E a \in Adapters : StartScraper(a)
    \/ \E a \in Adapters : FinishScraper(a)
    \/ \E a \in Adapters : Collect(a)
    \/ CalculateScores
    \/ Deduplicate
    \/ Sort
    \/ FilterAndReturn

Spec == Init /\ [][Next]_vars

\* The run under fair scheduling: the pool gives a queued task a free
\* worker, every search that runs returns or raises, and the collecting
\* thread keeps running.
SpecFair ==
    /\ Spec
    /\ WF_vars(SubmitAll)
    /\ \A a \in Adapters : WF_vars(StartScraper(a))
    /\ \A a \in Adapters : WF_vars(FinishScraper(a))
    /\ \A a \in Adapters : WF_vars(Collect(a))
    /\ WF_vars(CalculateScores)
    /\ WF_vars(Deduplicate)
    /\ WF_vars(Sort)
    /\ WF_vars(FilterAndReturn)

----------------------------------------------------------------------------
(* SpecPool: the thread pool of search_all_boards (52-64) given any list   *)
(* of the scraper classes of the package, the fifth (JapanDevScraper)      *)
(* included, so that the list can be longer than the pool is wide.  What a *)
(* search returns plays no part here.                                      *)

\* The scraper classes of scrapers/*.py, by source name.
ScraperClasses == {"LinkedIn", "Indeed", "Greenhouse", "Workday", "JapanDev"}

PoolInit ==
    /\ \E submitted \in SUBSET ScraperClasses :
          /\ submitted # {}
          /\ task = [a \in submitted |-> "new"]
    /\ pc = "submit"
    /\ filters = [off |-> TRUE]
    /\ resume_data = [off |-> TRUE]
    /\ outcome = <<>>
    /\ all_jobs = <<>>
    /\ errors = <<>>
    /\ completed_scrapers = 0
    /\ collected = <<>>
    /\ progress = <<>>
    /\ settled = <<>>
    /\ unique_jobs = <<>>
    /\ result = [off |-> TRUE]
    /\ dedup = NoDedup
    /\ score = NoScore
    /\ request = NoRequest
    /\ main = NoMain
    /\ parse = NoParse

\* run_scraper returns or raises (121-129): the worker is free again.
WorkerDone(a) ==
    /\ task[a] = "running"
    /\ task' = [task EXCEPT ![a] = "done"]
    /\ UNCHANGED <<filters, resume_data, pc, outcome, all_jobs, errors,
                   completed_scrapers, collected, progress, settled,
                   unique_jobs, result, dedup, score, request, main, parse>>

PoolNext ==
    \/ SubmitAll
    \/ \E a \in DOMAIN task : StartScraper(a)
    \/ \E a \in DOMAIN task : WorkerDone(a)

SpecPool == PoolInit /\ [][PoolNext]_vars

\* C11: at every moment at most 4 searches are executing, however many
\* adapters were submitted; an adapter submitted while 4 are running is not
\* started, and one that waits while a worker is free can be started; a
\* search starts only from the queue and, once started, is never started
\* again.
C11_BoundedConcurrency ==
    /\ [](/\ Cardinality(Running) <= 4
          /\ \A a \in DOMAIN task :
                task[a] = "queued" =>
                    (ENABLED StartScraper(a) <=> Cardinality(Running) < 4))
    /\ [][\A a \in DOMAIN task :
             /\ (task[a] # "running" /\ task'[a] = "running") => task[a] = "queued"
             /\ task[a] = "done" => task'[a] = "done"]_vars

\* C11 witness: five adapters were submitted, four searches are running
\* and the fifth waits in the queue.
C11_Witness ==
    /\ Cardinality(DOMAIN task) = 5
    /\ Cardinality(Running) = 4
    /\ \E a \in DOMAIN task : task[a] = "queued"

----------------------------------------------------------------------------
(* SpecRetry: one call of BaseScraper.make_request under its decorator     *)
(* (base_scraper.py 70-99):                                                *)
(*   @retry(stop=stop_after_attempt(3),                                    *)
(*          wait=wait_exponential(multiplier=1, min=2, max=16))            *)
(* The decorator is given no retry= and no reraise=: it retries after any  *)
(* exception and, when it stops, raises its own RetryError around the last *)
(* attempt.  Waits are in seconds.                                         *)

\* No run of search_all_boards takes part.
Idle ==
    /\ pc = "off"
    /\ filters = [off |-> TRUE]
    /\ resume_data = [off |-> TRUE]
    /\ task = <<>>
    /\ outcome = <<>>
    /\ all_jobs = <<>>
    /\ errors = <<>>
    /\ completed_scrapers = 0
    /\ collected = <<>>
    /\ progress = <<>>
    /\ settled = <<>>
    /\ unique_jobs = <<>>
    /\ result = [off |-> TRUE]

\* stop_after_attempt(3)
StopAfterAttempt == 3

\* wait_exponential(multiplier=1, min=2, max=16)
WaitMultiplier == 1

WaitMin == 2

WaitMax == 16

\* time.sleep(30) on a 429 (94)
RateLimitSleep == 30

\* The method argument: the two the code supports and one it does not.
Methods == {"GET", "POST", "PUT"}

\* What session.get / session.post and raise_for_status do (80-86): a
\* response, an HTTPError with status 429 or 500, or a ConnectionError.
OutboundResults == {"ok", "HTTP 429", "HTTP 500", "ConnectionError"}

\* The library computes the exponent from the attempt number; releases
\* differ in whether the first retry counts as 0 or as 1.
ExponentOffsets == {0, 1}

\* wait_exponential.__call__: max(min, min(multiplier * 2^exp, max)).
WaitExponential(attempt_number, offset) ==
    Max(WaitMin, Min(WaitMultiplier * 2^(attempt_number - 1 + offset), WaitMax))

\* The scraping_level an adapter is constructed with (44-46): the three
\* the limiter knows and one it does not.
ScrapingLevels == {"conservative", "normal", "aggressive", "turbo"}

\* RateLimiter.delays, in seconds, with every level but "normal" falling
\* back to the aggressive interval.
RateLimiterDelaysFallBackAggressive(level) ==
    CASE level = "conservative" -> [min_delay |-> 10, max_delay |-> 15]
      [] level = "normal" -> [min_delay |-> 5, max_delay |-> 8]
      [] OTHER -> [min_delay |-> 2, max_delay |-> 5]

\* self.delays.get(self.level, self.delays["normal"]) (25-33), in seconds.
RateLimiterDelays(level) ==
    CASE level = "conservative" -> [min_delay |-> 10, max_delay |-> 15]
      [] level = "aggressive" -> [min_delay |-> 2, max_delay |-> 5]
      [] OTHER -> [min_delay |-> 5, max_delay |-> 8]

\* random.uniform(min_delay, max_delay) (34): the whole seconds of the
\* interval, both ends among them.
DelayTimes(level) ==
    RateLimiterDelays(level).min_delay..RateLimiterDelays(level).max_delay

RetryInit ==
    /\ \E method \in Methods, offset \in ExponentOffsets, level \in ScrapingLevels :
          request = [phase |-> "call", method |-> method, offset |-> offset,
                     level |-> level, attempts |-> <<>>, delivered |-> "",
                     requests_made |-> 0, errors_encountered |-> 0]
    /\ Idle
    /\ dedup = NoDedup
    /\ score = NoScore
    /\ main = NoMain
    /\ parse = NoParse

\* Attempt sleeping on every HTTPError.
AttemptSleepOnAnyStatus(method, outbound, delay_time) ==
    IF method \notin {"GET", "POST"}
    THEN [delays |-> <<delay_time>>, raised |-> "ValueError", sent |-> FALSE,
          slept |-> 0, backoff |-> 0]
    ELSE IF outbound = "ok"
    THEN [delays |-> <<delay_time>>, raised |-> "", sent |-> TRUE,
          slept |-> 0, backoff |-> 0]
    ELSE [delays |-> <<delay_time>>, raised |-> outbound, sent |-> TRUE,
          slept |-> IF outbound \in {"HTTP 429", "HTTP 500"}
                    THEN RateLimitSleep ELSE 0,
          backoff |-> 0]

\* The body of make_request run once (73-99): the sleeps of the rate
\* limiter (73), then the outbound call if the method is supported, then
\* the sleep on a 429.
Attempt(method, outbound, delay_time) ==
    IF method \notin {"GET", "POST"}
    THEN [delays |-> <<delay_time>>, raised |-> "ValueError", sent |-> FALSE,
          slept |-> 0, backoff |-> 0]
    ELSE IF outbound = "ok"
    THEN [delays |-> <<delay_time>>, raised |-> "", sent |-> TRUE,
          slept |-> 0, backoff |-> 0]
    ELSE [delays |-> <<delay_time>>, raised |-> outbound, sent |-> TRUE,
          slept |-> IF outbound = "HTTP 429" THEN RateLimitSleep ELSE 0,
          backoff |-> 0]

\* MakeRequest with the 429 sleep only where a retry follows.
MakeRequestSleepBeforeRetryOnly ==
    /\ request.phase = "call"
    /\ \E outbound \in OutboundResults, delay_time \in DelayTimes(request.level) :
          LET body == Attempt(request.method, outbound, delay_time)
              a == IF Len(request.attempts) + 1 >= StopAfterAttempt
                   THEN [body EXCEPT !.slept = 0] ELSE body
              attempt_number == Len(request.attempts) + 1
          IN  request' = [request EXCEPT
                  !.attempts = Append(@, a),
                  !.requests_made = IF a.raised = "" THEN @ + 1 ELSE @,
                  !.errors_encountered =
                      IF a.raised \in OutboundResults THEN @ + 1 ELSE @,
                  !.phase = IF a.raised = "" THEN "returned"
                            ELSE IF attempt_number >= StopAfterAttempt
                                 THEN "raised"
                                 ELSE "backoff",
                  !.delivered = IF a.raised = "" THEN "response"
                                ELSE IF attempt_number >= StopAfterAttempt
                                     THEN "RetryError"
                                     ELSE ""]
    /\ UNCHANGED <<orchVars, dedup, score, main, parse>>

\* The decorated make_request is called, or called again after a wait: the
\* body runs once; then the decorator returns the response, or stops after
\* the third attempt and raises RetryError, or goes to wait.
MakeRequest ==
    /\ request.phase = "call"
    /\ \E outbound \in OutboundResults, delay_time \in DelayTimes(request.level) :
          LET a == Attempt(request.method, outbound, delay_time)
              attempt_number == Len(request.attempts) + 1
          IN  request' = [request EXCEPT
                  !.attempts = Append(@, a),
                  !.requests_made = IF a.raised = "" THEN @ + 1 ELSE @,
                  !.errors_encountered =
                      IF a.raised \in OutboundResults THEN @ + 1 ELSE @,
                  !.phase = IF a.raised = "" THEN "returned"
                            ELSE IF attempt_number >= StopAfterAttempt
                                 THEN "raised"
                                 ELSE "backoff",
                  !.delivered = IF a.raised = "" THEN "response"
                                ELSE IF attempt_number >= StopAfterAttempt
                                     THEN "RetryError"
                                     ELSE ""]
    /\ UNCHANGED <<orchVars, dedup, score, main, parse>>

\* The decorator sleeps wait_exponential's time before the next attempt.
RetryWait ==
    /\ request.phase = "backoff"
    /\ request' = [request EXCEPT
           !.attempts[Len(request.attempts)].backoff =
               WaitExponential(Len(request.attempts), request.offset),
           !.phase = "call"]
    /\ UNCHANGED <<orchVars, dedup, score, main, parse>>

RetryNext ==
    \/ MakeRequest
    \/ RetryWait

SpecRetry == RetryInit /\ [][RetryNext]_vars

FailedAttempts == {k \in DOMAIN request.attempts : request.attempts[k].raised # ""}

\* C12: make_request makes at most 3 attempts; it returns the response of
\* the first attempt that succeeds and makes no attempt after it; when all
\* 3 attempts fail, the caller gets the error the third attempt raised.
C12_LastErrorSurfaced ==
    /\ Len(request.attempts) <= 3
    /\ \A k \in DOMAIN request.attempts :
          request.attempts[k].raised = "" =>
              /\ k = Len(request.attempts)
              /\ request.phase = "returned"
              /\ request.delivered = "response"
    /\ request.phase = "raised" =>
          /\ Len(request.attempts) = 3
          /\ request.delivered = request.attempts[3].raised

\* C13: the wait after failed attempt k (k = 1, 2) is min(16, max(2, 2^k))
\* seconds, 2 after the first failure and 4 after the second; every wait
\* lies in [2, 16].
C13_BackoffSeconds ==
    \A k \in DOMAIN request.attempts :
        request.attempts[k].backoff # 0 =>
            /\ k \in {1, 2}
            /\ request.attempts[k].backoff = Min(16, Max(2, 2^k))
            /\ 2 <= request.attempts[k].backoff
            /\ request.attempts[k].backoff <= 16

\* C14: an attempt k < 3 that fails with HTTP 429 is followed by a fixed
\* 30 s sleep on top of the backoff wait before attempt k+1; a failure with
\* another status or a network error is followed by the backoff wait only.
C14_RateLimitSleep ==
    \A k \in FailedAttempts :
        /\ request.attempts[k].raised = "HTTP 429"
              => request.attempts[k].slept = 30
        /\ request.attempts[k].raised # "HTTP 429"
              => request.attempts[k].slept = 0
        /\ k < Len(request.attempts)
              => /\ k < 3
                 /\ request.attempts[k].backoff >= 2

\* C14 witness: the first attempt got a 429 and the second a 500, and the
\* third attempt was made after both waits.
C14_Witness ==
    /\ Len(request.attempts) = 3
    /\ request.attempts[1].raised = "HTTP 429"
    /\ request.attempts[1].slept = 30
    /\ request.attempts[2].raised = "HTTP 500"
    /\ request.attempts[2].slept = 0
    /\ request.attempts[2].backoff >= 2

\* C15: an error that is neither a network error nor a rate limit (the
\* ValueError of an unsupported method) is not retried: one attempt, no
\* wait, and the caller gets that error.
C15_FatalNotRetried ==
    (\E k \in DOMAIN request.attempts : request.attempts[k].raised = "ValueError")
        => /\ Len(request.attempts) = 1
           /\ request.attempts[1].backoff = 0
           /\ request.phase = "raised"
           /\ request.delivered = "ValueError"

\* The interval of a tier, in seconds.
TierInterval(level) ==
    CASE level = "conservative" -> 10..15
      [] level = "normal" -> 5..8
      [] level = "aggressive" -> 2..5
      [] OTHER -> 5..8

\* C25: every attempt of make_request that makes an outbound call, the
\* first and each retry, has slept exactly one rate-limiter delay before
\* the call, of a duration in the interval of the adapter's tier:
\* [10, 15] s conservative, [5, 8] s normal, [2, 5] s aggressive and
\* [5, 8] s for an unknown tier name.
C25_OneDelayPerCall ==
    \A k \in DOMAIN request.attempts :
        request.attempts[k].sent =>
            /\ Len(request.attempts[k].delays) = 1
            /\ request.attempts[k].delays[1] \in TierInterval(request.level)

\* C25 witness: an adapter of an unknown tier made an outbound call on
\* each of three attempts, each after one delay of 5 to 8 s, the delays
\* not all the same.
C25_Witness ==
    /\ request.level = "turbo"
    /\ Len(request.attempts) = 3
    /\ \A k \in 1..3 :
          /\ request.attempts[k].sent
          /\ Len(request.attempts[k].delays) = 1
          /\ request.attempts[k].delays[1] \in 5..8
    /\ request.attempts[1].delays # request.attempts[3].delays

\* C29: every attempt that fails with HTTP 429 sleeps 30 s before its
\* error leaves the attempt, the third attempt too: when the retries are
\* exhausted on a 429 the caller gets the error after that sleep although
\* no attempt and no backoff wait follows, and three 429 failures in a row
\* sleep 30 s three times.
C29_FinalAttemptSleeps ==
    /\ \A k \in DOMAIN request.attempts :
          request.attempts[k].raised = "HTTP 429" =>
              request.attempts[k].slept = RateLimitSleep
    /\ (request.phase = "raised" /\ Len(request.attempts) = StopAfterAttempt
           /\ request.attempts[StopAfterAttempt].raised = "HTTP 429") =>
          /\ request.attempts[StopAfterAttempt].slept = 30
          /\ request.attempts[StopAfterAttempt].backoff = 0
          /\ ~ENABLED MakeRequest
    /\ (Len(request.attempts) = 3
           /\ \A k \in 1..3 : request.attempts[k].raised = "HTTP 429") =>
          request.attempts[1].slept + request.attempts[2].slept
              + request.attempts[3].slept = 90

\* C29 witness: three attempts failed with 429, the caller has the error,
\* and each of the three attempts slept 30 s.
C29_Witness ==
    /\ request.phase = "raised"
    /\ Len(request.attempts) = 3
    /\ \A k \in 1..3 :
          /\ request.attempts[k].raised = "HTTP 429"
          /\ request.attempts[k].slept = 30

----------------------------------------------------------------------------
(* SpecFilter: apply_filters (153-181) as search_all_boards calls it, on   *)
(* every sorted list of at most MaxFilterLen postings and every criteria   *)
(* record over the values below.                                           *)

MaxFilterLen == 2

\* matchScore 0.25 and 0.5 (the default minimum).
FilterScores == {ONE \div 4, ONE \div 2}

\* companySize: None (""), or a size class.
CompanySizes == {"", "startup", "enterprise"}

\* The i-th posting of a list, by its fields that apply_filters reads.
FilterPosting(i, matchScore, description, visa, companySize) ==
    [Posting("Indeed", "u" \o ToString(i), "Dev", "Acme", "Berlin", description, visa)
        EXCEPT !.matchScore = matchScore, !.companySize = companySize]

FilterLists ==
    UNION {{jobs \in [1..n -> FilterScores \X {{}, {"swift"}} \X {"true", "null"}
                                  \X CompanySizes] :
               \A i \in 1..(n - 1) : jobs[i][1] >= jobs[i + 1][1]} :
           n \in 0..MaxFilterLen}

FilterCriteria ==
    [maxResultsIsInt : {TRUE},
     minimumMatchScore : {Absent, 0},
     techStack : {{}, {"Swift"}},
     visaSponsorship : BOOLEAN,
     companyTypes : {{}, {"startup"}}]

FilterInit ==
    /\ filters \in FilterCriteria
    /\ \E jobs \in FilterLists :
          unique_jobs = [i \in DOMAIN jobs |->
              FilterPosting(i, jobs[i][1], jobs[i][2], jobs[i][3], jobs[i][4])]
    /\ pc = "filter"
    /\ resume_data = [off |-> TRUE]
    /\ task = <<>>
    /\ outcome = <<>>
    /\ all_jobs = <<>>
    /\ errors = <<>>
    /\ completed_scrapers = 0
    /\ collected = <<>>
    /\ progress = <<>>
    /\ settled = <<>>
    /\ result = [jobs |-> <<>>, errors |-> <<>>]
    /\ dedup = NoDedup
    /\ score = NoScore
    /\ request = NoRequest
    /\ main = NoMain
    /\ parse = NoParse

SpecFilter == FilterInit /\ [][FilterAndReturn]_vars

\* The four predicates of the filter chain on one posting.
PassesScore(j, f) ==
    j.matchScore >= (IF f.minimumMatchScore = Absent THEN ONE \div 2
                     ELSE f.minimumMatchScore)

PassesTech(j, f) ==
    f.techStack = {} \/ \E tech \in f.techStack : Lower(tech) \in j.description

PassesVisa(j, f) == ~f.visaSponsorship \/ j.visaSponsorship = "true"

PassesSize(j, f) ==
    f.companyTypes = {} \/ j.companySize \in f.companyTypes \/ j.companySize = ""

\* C17: apply_filters returns exactly the input postings, in input order,
\* that satisfy all four predicates (score at least the minimum, 0.5 when
\* absent; a required tech in the description, case-insensitively, unless
\* no tech is required; visaSponsorship true when required; companySize in
\* the classes or unclassified, unless no class is given); a rejected
\* posting does not end the chain for the others, and applying the four
\* filters in the opposite order gives the same list.
C17_FilterChain ==
    pc = "done" =>
        /\ result.jobs =
              SelectSeq(unique_jobs,
                  LAMBDA j : /\ PassesScore(j, filters) /\ PassesTech(j, filters)
                             /\ PassesVisa(j, filters) /\ PassesSize(j, filters))
        /\ result.jobs =
              ByScore(ByTechStack(ByVisa(ByCompanyType(unique_jobs, filters),
                                         filters), filters), filters)

\* C17 witness: of two postings the first is rejected and the second
\* returned, under criteria that set all four filters.
C17_Witness ==
    /\ pc = "done"
    /\ filters.techStack # {} /\ filters.visaSponsorship
    /\ filters.companyTypes # {}
    /\ Len(unique_jobs) = 2
    /\ result.jobs = <<unique_jobs[2]>>

\* C18: with companyTypes = {"startup"}, a posting that passes the other
\* filters is kept when its companySize is null and dropped when its
\* companySize is "enterprise".
C18_UnclassifiedBypass ==
    (pc = "done" /\ filters.companyTypes = {"startup"}) =>
        \A i \in DOMAIN unique_jobs :
            LET j == unique_jobs[i]
            IN  (PassesScore(j, filters) /\ PassesTech(j, filters)
                    /\ PassesVisa(j, filters)) =>
                    /\ j.companySize = "" => j \in Range(result.jobs)
                    /\ j.companySize = "enterprise" => j \notin Range(result.jobs)

\* C18 witness: criteria companyTypes = {"startup"}; a posting without
\* companySize was returned and one with "enterprise" was dropped.
C18_Witness ==
    /\ pc = "done"
    /\ filters.companyTypes = {"startup"}
    /\ Len(result.jobs) = 1
    /\ result.jobs[1].companySize = ""
    /\ \E i \in DOMAIN unique_jobs :
          /\ unique_jobs[i].companySize = "enterprise"
          /\ PassesScore(unique_jobs[i], filters)
          /\ PassesTech(unique_jobs[i], filters)
          /\ PassesVisa(unique_jobs[i], filters)

----------------------------------------------------------------------------
(* SpecExperience and SpecLocation: calculate_experience_match and         *)
(* calculate_location_match, each applied to every input of its            *)
(* vocabulary, the inputs kept in the state next to the sub-score.         *)

ExperienceInit ==
    /\ \E yearsExperience \in {Absent} \cup 0..MaxYears, job_text \in ExperienceTexts :
          score = [phase |-> "experience", yearsExperience |-> yearsExperience,
                   resume_years |-> ResumeYears(yearsExperience),
                   job_text |-> job_text, experienceScore |-> Unset]
    /\ Idle
    /\ dedup = NoDedup
    /\ request = NoRequest
    /\ main = NoMain
    /\ parse = NoParse

\* matcher.py 402
ExperienceApply ==
    /\ score.phase = "experience"
    /\ score.experienceScore = Unset
    /\ score' = [score EXCEPT !.experienceScore =
                     calculate_experience_match(score.resume_years, score.job_text)]
    /\ UNCHANGED <<orchVars, dedup, request, main, parse>>

SpecExperience == ExperienceInit /\ [][ExperienceApply]_vars

LocationInit ==
    /\ \E resume_location \in Locations, job_location \in Locations :
          score = [phase |-> "location", resume_location |-> resume_location,
                   job_location |-> job_location, locationScore |-> Unset]
    /\ Idle
    /\ dedup = NoDedup
    /\ request = NoRequest
    /\ main = NoMain
    /\ parse = NoParse

\* matcher.py 403
LocationApply ==
    /\ score.phase = "location"
    /\ score.locationScore = Unset
    /\ score' = [score EXCEPT !.locationScore =
                     calculate_location_match(score.resume_location,
                                              score.job_location)]
    /\ UNCHANGED <<orchVars, dedup, request, main, parse>>

SpecLocation == LocationInit /\ [][LocationApply]_vars

\* The experience table of the claim, for y years against r required,
\* in hundredths.
ExperienceTable(y, r) ==
    IF y >= r
    THEN (IF y - r <= 4 THEN 100 ELSE IF y - r <= 7 THEN 85 ELSE 75)
    ELSE (IF r - y <= 1 THEN 85 ELSE IF r - y <= 2 THEN 65
          ELSE IF r - y <= 3 THEN 45 ELSE 25)

\* C19: for a candidate with y >= 1 years and the required years r that
\* the posting states or implies, calculate_experience_match returns 1.0,
\* 0.85 or 0.75 for a surplus of at most 4, at most 7 or more years, and
\* 0.85, 0.65, 0.45 or 0.25 for a gap of at most 1, 2, 3 or more years;
\* 5 years against "3+ years experience" scores 1.0.
C19_ExperienceTable ==
    (score.experienceScore # Unset /\ score.resume_years >= 1) =>
        /\ score.experienceScore * 100 =
              ExperienceTable(score.resume_years, RequiredYears(score.job_text))
                  * SCALE
        /\ (score.resume_years = 5 /\ score.job_text = {"3+ years experience"})
              => score.experienceScore = SCALE

\* C19 witness: 12 years against "3+ years experience" scored 0.75.
C19_Witness ==
    /\ score.resume_years = 12
    /\ score.job_text = {"3+ years experience"}
    /\ score.experienceScore = (75 * SCALE) \div 100

\* The table of the claim for a candidate of 0 years, in hundredths.
ZeroYearsTable(r) ==
    CASE r = 0 -> 100
      [] r = 1 -> 85
      [] r = 2 -> 65
      [] r = 3 -> 45
      [] OTHER -> 25

\* C28: a candidate whose yearsExperience is 0 or absent is scored as
\* having 0 years: against r required years the experience sub-score is
\* 1.0 for r = 0, 0.85 for r = 1, 0.65 for r = 2, 0.45 for r = 3 and 0.25
\* for r >= 4.
C28_ZeroYearsAsZero ==
    (score.experienceScore # Unset /\ score.yearsExperience \in {0, Absent}) =>
        score.experienceScore * 100 =
            ZeroYearsTable(RequiredYears(score.job_text)) * SCALE

\* The table of a candidate counted as having 3 years, in hundredths.
ThreeYearsTable(r) ==
    CASE r <= 3 -> 100
      [] r = 4 -> 85
      [] r = 5 -> 65
      [] r = 6 -> 45
      [] OTHER -> 25

\* C28 as amended: a candidate whose yearsExperience is 0 or absent is
\* scored as having 3 years: the experience sub-score is 1.0 for r <= 3,
\* 0.85 for r = 4, 0.65 for r = 5, 0.45 for r = 6 and 0.25 for r >= 7.
C28_ZeroYearsAsThree ==
    (score.experienceScore # Unset /\ score.yearsExperience \in {0, Absent}) =>
        score.experienceScore * 100 =
            ThreeYearsTable(RequiredYears(score.job_text)) * SCALE

\* C28 witness: a candidate without yearsExperience scored 0.85 against
\* "4+ years experience".
C28_Witness ==
    /\ score.yearsExperience = Absent
    /\ score.resume_years = 0
    /\ score.job_text = {"4+ years experience"}
    /\ score.experienceScore = (85 * SCALE) \div 100

\* C20: a posting whose location contains "remote", in any letter case,
\* gets the location sub-score 1.0 whatever the candidate location, absent
\* or empty included.
C20_RemoteIsFullMatch ==
    (score.locationScore # Unset
        /\ score.job_location \in {"Remote", "REMOTE", "Fully remote (Japan)"})
        => score.locationScore = SCALE

\* C20 witness: a candidate without location against a posting in
\* "REMOTE" scored 1.0.
C20_Witness ==
    /\ score.resume_location = ""
    /\ score.job_location = "REMOTE"
    /\ score.locationScore = SCALE

----------------------------------------------------------------------------
(* Claims about a run of search_all_boards.                                *)

AllCollected == \A a \in Adapters : collected[a] # NotCollected

\* The adapters whose search raised.
Failed == {a \in Adapters : task[a] = "done" /\ outcome[a].raised}

\* The postings as the adapters returned them, before scoring.
Unscored(jobs) == [i \in DOMAIN jobs |-> [jobs[i] EXCEPT !.matchScore = 0]]

PostingsOf(a, jobs) == SelectSeq(Unscored(jobs), LAMBDA j : j.source = a)

ErrorsOf(a) == SelectSeq(errors, LAMBDA e : e.source = get_source_name(a))

\* C1: whatever subset of the adapters raises, the run goes on to return;
\* once every adapter is collected the accumulator holds every posting
\* returned by the adapters that did not raise, and errors holds exactly
\* one entry "<source name>: <error message>" for each adapter that raised
\* and none for the others; the returned errors list is that list.
C1_FailuresIsolated ==
    /\ pc \in {"submit", "collect", "dedup", "sort", "filter", "done"}
    /\ AllCollected =>
          /\ Len(errors) = Cardinality(Failed)
          /\ \A a \in Failed :
                /\ ErrorsOf(a) = <<[source |-> get_source_name(a),
                                    message |-> outcome[a].message]>>
                /\ PostingsOf(a, all_jobs) = <<>>
          /\ \A a \in Adapters \ Failed :
                /\ ErrorsOf(a) = <<>>
                /\ PostingsOf(a, all_jobs) = outcome[a].jobs
    /\ pc = "done" => result.errors = errors

\* C1 witness: the run returned although an adapter raised, and postings
\* of two other adapters were collected, one of them after the failure.
C1_Witness ==
    /\ pc = "done"
    /\ Failed # {}
    /\ Len(errors) = 1
    /\ Cardinality({a \in Adapters \ Failed : outcome[a].jobs # <<>>}) = 2
    /\ \E k \in DOMAIN settled :
          /\ settled[k] \notin Failed
          /\ outcome[settled[k]].jobs # <<>>
          /\ \E i \in 1..(k - 1) : settled[i] \in Failed

\* C2: for every adapter task, once it is collected exactly one of the two
\* branches has run for it: its postings were appended to the accumulator
\* or one error entry was appended for it, never both and never neither;
\* every adapter is collected before the run goes on, whatever its
\* siblings did.
C2_ExactlyOneBranch ==
    /\ pc # "raised"
    /\ \A a \in Adapters :
          /\ collected[a].extended + collected[a].failed <= 1
          /\ collected[a] # NotCollected <=> a \in Range(settled)
          /\ collected[a].extended = 1 =>
                /\ ~outcome[a].raised
                /\ PostingsOf(a, all_jobs) = outcome[a].jobs
                /\ ErrorsOf(a) = <<>>
          /\ collected[a].failed = 1 =>
                /\ outcome[a].raised
                /\ Len(ErrorsOf(a)) = 1
                /\ PostingsOf(a, all_jobs) = <<>>
          /\ collected[a] = NotCollected =>
                /\ PostingsOf(a, all_jobs) = <<>>
                /\ ErrorsOf(a) = <<>>
    /\ pc \in {"dedup", "sort", "filter", "done"} =>
          \A a \in Adapters : collected[a].extended + collected[a].failed = 1

\* C2 witness: an adapter that returned postings is collected right after
\* one that raised.
C2_Witness ==
    \E k \in DOMAIN settled :
        /\ k > 1
        /\ collected[settled[k - 1]].failed = 1
        /\ collected[settled[k]].extended = 1
        /\ outcome[settled[k]].jobs # <<>>

WithScore(jobs, v) == SelectSeq(jobs, LAMBDA j : j.matchScore = v)

ScoresOf(jobs) == {jobs[i].matchScore : i \in DOMAIN jobs}

\* C7: the returned jobs list is non-increasing in matchScore over its
\* whole length, and returned postings with equal matchScore are in the
\* order they have in the accumulator.
C7_SortedAndStable ==
    pc = "done" =>
        /\ \A i, j \in DOMAIN result.jobs :
              i < j => result.jobs[i].matchScore >= result.jobs[j].matchScore
        /\ \A v \in ScoresOf(result.jobs) :
              IsSubsequence(WithScore(result.jobs, v), WithScore(all_jobs, v))

\* C7 witness: the returned list has two postings of equal score and one of
\* another score, and the sort moved a posting ahead of one collected
\* before it.
C7_Witness ==
    /\ pc = "done"
    /\ \E i, j \in DOMAIN result.jobs :
          i < j /\ result.jobs[i].matchScore = result.jobs[j].matchScore
    /\ Cardinality(ScoresOf(result.jobs)) > 1
    /\ ~IsSubsequence(result.jobs, all_jobs)

NonDecreasing(s) == \A i, j \in DOMAIN s : i < j => s[i] <= s[j]

\* A step that passes fractions to log_progress: every step but the
\* submission and the sort.
Logs == pc \notin {"submit", "sort"}

\* C9: the fractions of the progress events of one run, in the order they
\* are emitted, never decrease, and each lies in [0,1].
C9_ProgressMonotone ==
    [][Logs => /\ NonDecreasing(progress \o progress')
               /\ \A i \in DOMAIN progress' :
                     0 <= progress'[i] /\ progress'[i] <= PSCALE]_vars

\* C10: the event of the first dispatch carries 0.2; the event of the
\* k-th collected adapter carries 0.2 + 0.6 * k / n, whether the adapter
\* returned or raised, so that the last of them carries 0.8.
C10_LinearProgress ==
    [][/\ ((\A a \in Adapters : task[a] = "queued")
             /\ (\E a \in Adapters : task'[a] = "running"))
          => Pct(20) \in Range(progress')
       /\ \A a \in Adapters :
             (collected[a] = NotCollected /\ collected'[a] # NotCollected)
                => progress' = <<Pct(20) + (Len(settled') * Pct(60))
                                               \div total_scrapers>>]_vars

\* C16: for every adapter, when its outbound requests failed on every
\* attempt until the retries were exhausted, the response carries an errors
\* entry with that adapter's source name.
C16_ExhaustedIsReported ==
    pc = "done" =>
        \A a \in Adapters :
            outcome[a].exhausted =>
                \E i \in DOMAIN result.errors :
                    result.errors[i].source = get_source_name(a)

----------------------------------------------------------------------------
(* SpecMain: one run of main (job_search.py 190-216).  The copy in         *)
(* scrapers/__init__.py (188-210) differs only in the diagnostic, which    *)
(* has no traceback.  The position is main.phase; stdout is the sequence   *)
(* of objects printed, exit_status is Unset while the process runs.        *)

MaxMainJobs == 2

\* What stdin holds: text that json.loads rejects, a JSON array, or an
\* object with its "action" ("None": no such key) and its "filters".
Envelopes ==
    {[text |-> "not JSON", action |-> "None", filters |-> "object"],
     [text |-> "array", action |-> "None", filters |-> "object"]}
    \cup [text : {"object"}, action : {"search", "parse", "None"},
          filters : {"object", "array"}]

\* What search_all_boards can return to main: postings of the boards and
\* the error entries of the adapters that can raise.
SearchResults ==
    [jobs : SeqsUpTo(Board("LinkedIn"), MaxMainJobs),
     errors : {<<>>,
               <<ErrorMessage("Indeed", "HTTP 429")>>,
               <<ErrorMessage("Indeed", "TypeError"),
                 ErrorMessage("Greenhouse", "TypeError")>>}]

MainInit ==
    /\ \E stdin \in Envelopes, module \in {"job_search", "scrapers"} :
          main = [phase |-> "read", module |-> module, stdin |-> stdin,
                  result |-> [jobs |-> <<>>, errors |-> <<>>], raised |-> "",
                  stdout |-> <<>>, exit_status |-> Unset]
    /\ Idle
    /\ dedup = NoDedup
    /\ score = NoScore
    /\ request = NoRequest
    /\ parse = NoParse

\* json.loads(sys.stdin.read()) and input_data.get('action') (194-196).
MainRead ==
    /\ main.phase = "read"
    /\ main' = [main EXCEPT
           !.raised = IF main.stdin.text = "not JSON" THEN "JSONDecodeError"
                      ELSE IF main.stdin.text = "array" THEN "AttributeError"
                      ELSE "",
           !.phase = IF main.stdin.text = "object" THEN "dispatch" ELSE "except"]
    /\ UNCHANGED <<orchVars, dedup, score, request, parse>>

\* action == 'search' (198-202).  filters.get raises in search_all_boards
\* (37) when "filters" is not an object; adapter failures are entries of
\* the result it returns.
MainSearch ==
    /\ main.phase = "dispatch"
    /\ main.stdin.action = "search"
    /\ IF main.stdin.filters # "object"
       THEN main' = [main EXCEPT !.raised = "AttributeError", !.phase = "except"]
       ELSE \E r \in SearchResults :
               main' = [main EXCEPT !.result = r, !.phase = "write"]
    /\ UNCHANGED <<orchVars, dedup, score, request, parse>>

\* The else branch (203-204); the entry has no source name before it.
MainUnknownAction ==
    /\ main.phase = "dispatch"
    /\ main.stdin.action # "search"
    /\ main' = [main EXCEPT
           !.result = [jobs |-> <<>>,
                       errors |-> <<[source |-> "",
                                     message |-> "Unknown action: "
                                                    \o main.stdin.action]>>],
           !.phase = "write"]
    /\ UNCHANGED <<orchVars, dedup, score, request, parse>>

\* json.dumps of a dictionary with the keys jobs and errors.
JsonObject(r) == [jobs |-> r.jobs, errors |-> r.errors]

\* print(json.dumps(result)) (207): json.dumps raises TypeError on a value
\* of a posting it cannot serialize, before anything is printed; main
\* returns and the process exits with status 0 otherwise.
MainWrite ==
    /\ main.phase = "write"
    /\ \E serializable \in BOOLEAN :
          /\ main.result.jobs = <<>> => serializable
          /\ IF serializable
             THEN main' = [main EXCEPT
                      !.stdout = Append(@, JsonObject(main.result)),
                      !.exit_status = 0, !.phase = "exited"]
             ELSE main' = [main EXCEPT !.raised = "TypeError", !.phase = "except"]
    /\ UNCHANGED <<orchVars, dedup, score, request, parse>>

\* error_result (211-214; scrapers/__init__.py 208): str(e), followed by
\* the traceback in job_search.py.
error_result(module, e) ==
    [jobs |-> <<>>,
     errors |-> <<[message |-> e, traceback |-> module = "job_search"]>>]

\* The handler printing nothing and leaving the status at 0.
MainExceptSwallow ==
    /\ main.phase = "except"
    /\ main' = [main EXCEPT !.exit_status = 0, !.phase = "exited"]
    /\ UNCHANGED <<orchVars, dedup, score, request, parse>>

\* except Exception (209-216): print the error result, sys.exit(1).
MainExcept ==
    /\ main.phase = "except"
    /\ main' = [main EXCEPT
           !.stdout = Append(@, JsonObject(error_result(main.module, main.raised))),
           !.exit_status = 1, !.phase = "exited"]
    /\ UNCHANGED <<orchVars, dedup, score, request, parse>>

MainNext ==
    \/ MainRead
    \/ MainSearch
    \/ MainUnknownAction
    \/ MainWrite
    \/ MainExcept

SpecMain == MainInit /\ [][MainNext]_vars

\* C21: on every path of main at most one object is ever written, and when
\* the process has exited exactly one, with the two fields jobs and errors;
\* the exit status is non-zero exactly when an exception left the request
\* handling, and then jobs is empty and errors holds the one diagnostic;
\* a result with adapter errors is written as it is, with exit status 0.
C21_OneObjectWritten ==
    /\ Len(main.stdout) <= 1
    /\ main.phase = "exited" =>
          /\ Len(main.stdout) = 1
          /\ DOMAIN main.stdout[1] = {"jobs", "errors"}
          /\ main.exit_status # 0 <=> main.raised # ""
          /\ main.exit_status # 0 =>
                /\ main.stdout[1].jobs = <<>>
                /\ Len(main.stdout[1].errors) = 1
                /\ main.stdout[1].errors[1].message = main.raised
          /\ main.exit_status = 0 => main.stdout[1] = main.result
    /\ main.phase # "exited" => main.exit_status = Unset

\* C21 witness: a search whose result carries two adapter errors and a
\* posting was written and the process exited with status 0.
C21_Witness ==
    /\ main.phase = "exited"
    /\ main.stdin.action = "search"
    /\ main.exit_status = 0
    /\ Len(main.stdout) = 1
    /\ Len(main.stdout[1].errors) = 2
    /\ main.stdout[1].jobs # <<>>

----------------------------------------------------------------------------
(* Claims about a run of search_all_boards under fair scheduling.          *)

\* C22: under fair scheduling, with every search returning or raising,
\* search_all_boards eventually returns, whatever adapters raise; the
\* returned result has one error per adapter that raised, and no posting
\* when no adapter returned one; no exception leaves search_all_boards.
C22_EventuallyReturns ==
    /\ <>(pc = "done")
    /\ [](/\ pc # "raised"
          /\ pc = "done" =>
                /\ Len(result.errors) = Cardinality(Failed)
                /\ (\A a \in Adapters \ Failed : outcome[a].jobs = <<>>)
                      => result.jobs = <<>>)

\* C22 witness: the run returned with empty jobs and two errors after
\* every adapter that can raise did, the others having found nothing.
C22_Witness ==
    /\ pc = "done"
    /\ Failed = {"Indeed", "Greenhouse"}
    /\ result.jobs = <<>>
    /\ Len(result.errors) = 2

\* The position of the collecting thread as a number.
StageRank(p) ==
    CASE p = "submit" -> 0
      [] p = "collect" -> 1
      [] p = "dedup" -> 2
      [] p = "sort" -> 3
      [] p = "filter" -> 4
      [] p = "done" -> 5
      [] OTHER -> 6

\* C26: in every run the scoring step is taken only when every adapter
\* task is done and collected; from then on every step is the next stage,
\* in the order score, deduplicate, sort, filter, so each runs once and no
\* adapter event follows; the scoring step emits the checkpoint 0.85, the
\* deduplication step 0.90 and the filter step 0.95, each one event, and
\* the sort emits nothing.  (Events that an adapter emits while it
\* searches are not checkpoints, whatever fraction they carry.)
C26_StagesInOrder ==
    [][/\ StageRank(pc') \in {StageRank(pc), StageRank(pc) + 1}
       /\ StageRank(pc) >= 2 => StageRank(pc') = StageRank(pc) + 1
       /\ (pc = "collect" /\ (pc' # pc \/ (all_jobs' # all_jobs
                                             /\ Len(all_jobs') = Len(all_jobs)))) =>
             /\ \A a \in Adapters : task[a] = "done" /\ collected[a] # NotCollected
             /\ pc' = "dedup"
             /\ progress' = <<Pct(85)>>
             /\ Unscored(all_jobs') = Unscored(all_jobs)
       /\ pc = "dedup" =>
             /\ progress' = <<Pct(90)>>
             /\ unique_jobs' = deduplicate_jobs(all_jobs)
             /\ all_jobs' = all_jobs
       /\ pc = "sort" =>
             /\ progress' = progress
             /\ unique_jobs' = SortByScore(unique_jobs)
       /\ pc = "filter" =>
             /\ progress' = <<Pct(95)>>
             /\ result'.jobs = apply_filters(unique_jobs, filters)
             /\ unique_jobs' = unique_jobs
       /\ StageRank(pc) <= 1 =>
             /\ StageRank(pc') <= 1 => unique_jobs' = <<>> /\ result' = result
             /\ \A i \in DOMAIN all_jobs : all_jobs[i].matchScore = 0]_vars

\* C26 witness: a run is done whose deduplication dropped a posting and
\* whose sort moved one, the last event being the checkpoint 0.95.
C26_Witness ==
    /\ pc = "done"
    /\ progress = <<Pct(95)>>
    /\ Len(unique_jobs) < Len(all_jobs)
    /\ Len(unique_jobs) >= 2
    /\ ~IsSubsequence(unique_jobs, all_jobs)

\* The orders in which the adapter tasks can complete.
CompletionOrders ==
    {order \in [1..total_scrapers -> Adapters] :
        \A i, j \in 1..total_scrapers : i # j => order[i] # order[j]}

RECURSIVE ExtendedIn(_, _)
\* all_jobs after the first k adapters of the order were collected (72-73).
ExtendedIn(order, k) ==
    IF k = 0 THEN <<>>
    ELSE ExtendedIn(order, k - 1)
            \o (IF outcome[order[k]].raised THEN <<>> ELSE outcome[order[k]].jobs)

RECURSIVE AppendedIn(_, _)
\* errors after the first k adapters of the order were collected (79-81).
AppendedIn(order, k) ==
    IF k = 0 THEN <<>>
    ELSE AppendedIn(order, k - 1)
            \o (IF outcome[order[k]].raised
                THEN <<ErrorMessage(get_source_name(order[k]),
                                    outcome[order[k]].message)>>
                ELSE <<>>)

\* What search_all_boards returns when the tasks, with the outputs of this
\* run, complete in the given order (67-106).
ResponseFor(order) ==
    LET collectedJobs == ExtendedIn(order, total_scrapers)
        scored == [i \in DOMAIN collectedJobs |->
                      [collectedJobs[i] EXCEPT
                          !.matchScore =
                              calculate_match_score(resume_data, collectedJobs[i])]]
    IN  [jobs |-> apply_filters(SortByScore(deduplicate_jobs(scored)), filters),
         errors |-> AppendedIn(order, total_scrapers)]

ResponseOfOwnOrder ==
    pc = "done" => result = ResponseFor(settled)

----------------------------------------------------------------------------
(* SpecParse: parse_resume (resume_parser.py 198-233) applied to every PDF *)
(* of at most MaxLines lines.  A text is the sequence of its lines; the    *)
(* lists that the code sorts out of a set (skills, keywords) are sets.     *)

MaxLines == 3

\* The lines a page can hold.
ResumeLines ==
    {"", "Error budgets and SLOs", "error handling in swift",
     "Senior iOS Engineer 2019 - 2023", "Tokyo, JP"}

\* What makes PdfReader or page.extract_text raise (61-64).
ReadErrors == {"FileNotFoundError", "PdfReadError"}

\* A PDF at pdf_path: one that cannot be read, or the lines of its pages.
Pdfs ==
    [raises : ReadErrors, lines : {<<>>}]
    \cup [raises : {""}, lines : SeqsUpTo(ResumeLines, MaxLines)]

RECURSIVE LStrip(_)
LStrip(lines) ==
    IF lines # <<>> /\ Head(lines) = "" THEN LStrip(Tail(lines)) ELSE lines

RECURSIVE RStrip(_)
RStrip(lines) ==
    IF lines # <<>> /\ lines[Len(lines)] = ""
    THEN RStrip(SubSeq(lines, 1, Len(lines) - 1))
    ELSE lines

\* text.strip() (65): blank lines at either end go.
Strip(lines) == RStrip(LStrip(lines))

\* The message written in place of the text, with the first letter in
\* lower case.
extract_text_from_pdfLowerCase(pdf) ==
    IF pdf.raises # ""
    THEN <<"error extracting text: " \o pdf.raises>>
    ELSE Strip(pdf.lines)

\* extract_text_from_pdf (58-67): the text, or the message of the
\* exception in its place.
extract_text_from_pdf(pdf) ==
    IF pdf.raises # ""
    THEN <<"Error extracting text: " \o pdf.raises>>
    ELSE Strip(pdf.lines)

\* startswith, whatever the case of the letters.
StartsWithErrorAnyCase(text) ==
    /\ text # <<>>
    /\ text[1] \in {"Error budgets and SLOs", "error handling in swift"}
                     \cup {"Error extracting text: " \o e : e \in ReadErrors}

\* text.startswith("Error") (208)
StartsWithError(text) ==
    /\ text # <<>>
    /\ text[1] \in {"Error budgets and SLOs"}
                     \cup {"Error extracting text: " \o e : e \in ReadErrors}

\* The TECH_SKILLS found in a line, title-cased (76-80).
SkillsIn(line) ==
    CASE line = "error handling in swift" -> {"Swift"}
      [] line = "Senior iOS Engineer 2019 - 2023" -> {"Ios"}
      [] OTHER -> {}

\* extract_skills (70-94)
extract_skills(text) == UNION {SkillsIn(text[i]) : i \in DOMAIN text}

\* The matches of keyword_patterns in a line, in lower case (102-115).
KeywordsIn(line) ==
    IF line = "Senior iOS Engineer 2019 - 2023" THEN {"senior", "engineer"} ELSE {}

\* extract_keywords (97-117)
extract_keywords(text) == UNION {KeywordsIn(text[i]) : i \in DOMAIN text}

\* job_title_pattern (125) and date_pattern (131) in a line; "" for no match.
TitleIn(line) ==
    IF line = "Senior iOS Engineer 2019 - 2023" THEN "Senior iOS Engineer" ELSE ""

DurationIn(line) ==
    IF line = "Senior iOS Engineer 2019 - 2023" THEN "2019 - 2023" ELSE ""

\* The first match of company_pattern (128) in a line: its first
\* capitalized word.
CompanyIn(line) ==
    CASE line = "Error budgets and SLOs" -> "Error"
      [] line = "Senior iOS Engineer 2019 - 2023" -> "Senior"
      [] line = "Tokyo, JP" -> "Tokyo"
      [] OTHER -> ""

\* The company of the title in line i (143-148): the first match in the
\* lines i-2 .. i+2 that differs from the title.
CompanyNear(text, i) ==
    LET near == {j \in Max(1, i - 2)..Min(Len(text), i + 2) :
                    CompanyIn(text[j]) \notin {"", TitleIn(text[i])}}
    IN  IF near = {} THEN "Unknown Company"
        ELSE CompanyIn(text[CHOOSE j \in near : \A k \in near : j <= k])

RECURSIVE ExperiencesUpTo(_, _)
ExperiencesUpTo(text, i) ==
    IF i = 0 THEN <<>>
    ELSE ExperiencesUpTo(text, i - 1)
            \o (IF TitleIn(text[i]) # "" /\ DurationIn(text[i]) # ""
                THEN <<[title |-> TitleIn(text[i]),
                        company |-> CompanyNear(text, i),
                        duration |-> DurationIn(text[i])]>>
                ELSE <<>>)

\* extract_experience (120-156)
extract_experience(text) ==
    LET experiences == ExperiencesUpTo(text, Len(text))
    IN  SubSeq(experiences, 1, Min(5, Len(experiences)))

\* extract_location (159-174): the first "City, ST" of the text.
extract_location(text) ==
    IF \E i \in DOMAIN text : text[i] = "Tokyo, JP" THEN "Tokyo, JP" ELSE "null"

\* end year minus start year of a duration (185-189).
DurationYears(duration) == IF duration = "2019 - 2023" THEN 2023 - 2019 ELSE 0

RECURSIVE calculate_years_of_experience(_)
\* calculate_years_of_experience (177-195)
calculate_years_of_experience(experiences) ==
    IF experiences = <<>> THEN 0
    ELSE DurationYears(Head(experiences).duration)
            + calculate_years_of_experience(Tail(experiences))

\* parse_resume (198-233); location None is "null".
parse_resume(pdf) ==
    LET text == extract_text_from_pdf(pdf)
    IN  IF StartsWithError(text)
        THEN [error |-> text, text |-> <<>>, skills |-> {}, keywords |-> {},
              experience |-> <<>>, location |-> "null", yearsExperience |-> 0]
        ELSE LET experiences == extract_experience(text)
             IN  [text |-> text, skills |-> extract_skills(text),
                  keywords |-> extract_keywords(text),
                  experience |-> experiences,
                  location |-> extract_location(text),
                  yearsExperience |-> calculate_years_of_experience(experiences)]

ParseInit ==
    /\ \E pdf \in Pdfs : parse = [phase |-> "call", pdf |-> pdf]
    /\ Idle
    /\ dedup = NoDedup
    /\ score = NoScore
    /\ request = NoRequest
    /\ main = NoMain

\* The call returns; no statement of parse_resume can raise: every call
\* into the PDF library is inside the try of extract_text_from_pdf.
ParseApply ==
    /\ parse.phase = "call"
    /\ parse' = [phase |-> "returned", pdf |-> parse.pdf,
                 result |-> parse_resume(parse.pdf)]
    /\ UNCHANGED <<orchVars, dedup, score, request, main>>

SpecParse == ParseInit /\ [][ParseApply]_vars

\* The fields of the error result.
EmptyDefaults(r) ==
    /\ r.text = <<>> /\ r.skills = {} /\ r.keywords = {}
    /\ r.experience = <<>> /\ r.location = "null" /\ r.yearsExperience = 0

\* C24: parse_resume on a path whose PDF cannot be read returns (it does
\* not raise) a result with an "error" key and the empty defaults: text "",
\* skills [], keywords [], experience [], location null, yearsExperience 0.
C24_UnreadablePdf ==
    /\ parse.phase \in {"call", "returned"}
    /\ (parse.phase = "returned" /\ parse.pdf.raises # "") =>
          /\ "error" \in DOMAIN parse.result
          /\ EmptyDefaults(parse.result)

\* C24 witness: the call on a path without a file returned the error
\* result.
C24_Witness ==
    /\ parse.phase = "returned"
    /\ parse.pdf.raises = "FileNotFoundError"
    /\ parse.result.error = <<"Error extracting text: FileNotFoundError">>
    /\ parse.result.yearsExperience = 0

\* The extraction failed, or the text of the readable PDF begins "Error".
BeginsWithError(pdf) ==
    \/ pdf.raises # ""
    \/ \E i \in DOMAIN pdf.lines :
          /\ pdf.lines[i] = "Error budgets and SLOs"
          /\ \A j \in 1..(i - 1) : pdf.lines[j] = ""

\* C30: parse_resume returns the error result with the empty fields
\* exactly when the extracted text starts with "Error", be it the message
\* of a failed extraction or the text of a readable PDF; otherwise it
\* returns the six parsed fields, the text among them, and no "error" key;
\* it always returns.
C30_PrefixDecides ==
    /\ parse.phase \in {"call", "returned"}
    /\ parse.phase = "returned" =>
          IF BeginsWithError(parse.pdf)
          THEN /\ DOMAIN parse.result =
                     {"error", "text", "skills", "keywords", "experience",
                      "location", "yearsExperience"}
               /\ EmptyDefaults(parse.result)
          ELSE /\ DOMAIN parse.result =
                     {"text", "skills", "keywords", "experience", "location",
                      "yearsExperience"}
               /\ parse.result.text = Strip(parse.pdf.lines)

\* C30 witness: a readable PDF whose text starts with the word "Error",
\* after a blank line, and holds a job title, got the error result.
C30_Witness ==
    /\ parse.phase = "returned"
    /\ parse.pdf.raises = ""
    /\ parse.pdf.lines = <<"", "Error budgets and SLOs",
                           "Senior iOS Engineer 2019 - 2023">>
    /\ "error" \in DOMAIN parse.result
    /\ parse.result.experience = <<>>

====
